---- MODULE Spec2Model ----
(***************************************************************************)
(* Sonar Ledger: statement parsing, rule categorisation, the embedding    *)
(* classifier with its cache and correction store, and similarity         *)
(* propagation, modelled from the TypeScript sources under src/.          *)
(*                                                                         *)
(* Conventions                                                             *)
(*   - money is in cents, similarity scores are in hundredths (1.0 = 100) *)
(*   - an optional value (vendor?: string) is <<>> when undefined and     *)
(*     <<s>> when it is the string s                                       *)
(*   - embedding vectors are integer pairs of norm 5, so that the dot     *)
(*     product of two of them is 25 times their cosine                     *)
(***************************************************************************)
EXTENDS Integers, Sequences, FiniteSets, TLC

(***************************************************************************)
(* Strings                                                                 *)
(***************************************************************************)
UpperChars == "ABCDEFGHIJKLMNOPQRSTUVWXYZ"
LowerChars == "abcdefghijklmnopqrstuvwxyz"

\* String.prototype.includes
Includes(s, k) ==
  \E i \in 1..(Len(s) - Len(k) + 1) : SubSeq(s, i, i + Len(k) - 1) = k

LowerChar(c) ==
  IF \E i \in 1..26 : SubSeq(UpperChars, i, i) = c
    THEN LET i == CHOOSE j \in 1..26 : SubSeq(UpperChars, j, j) = c
         IN  SubSeq(LowerChars, i, i)
    ELSE c

RECURSIVE toLowerCase(_)
\* String.prototype.toLowerCase
toLowerCase(s) ==
  IF Len(s) = 0 THEN ""
  ELSE LowerChar(SubSeq(s, 1, 1)) \o toLowerCase(SubSeq(s, 2, Len(s)))

\* optional strings
Undefined == <<>>
Some(s) == <<s>>
\* JavaScript truthiness of an optional string: undefined and "" are falsy
Truthy(opt) == opt # <<>> /\ opt[1] # ""

(***************************************************************************)
(* Category Rule Engine (lib/parsers/categorizer.ts)                       *)
(***************************************************************************)
\* the ordered if-chain of categorizeTransaction; saveTo marks the rule that
\* also matches desc.includes('save') && (includes('transfer') || includes('to '))
RULES ==
  <<
    [category |-> "Income",
     desc |-> {"salary", "payroll", "giro - salary", "bonus"},
     vendor |-> {},
     saveTo |-> FALSE],
    [category |-> "Investments",
     desc |-> {"tiger brokers", "moomoo", "interactive brokers", "syfe", "stashaway", "endowus", "poems", "dbs vickers", "cpf", "srs"},
     vendor |-> {"tiger", "moomoo", "syfe"},
     saveTo |-> FALSE],
    [category |-> "Savings",
     desc |-> {"savings", "fixed deposit"},
     vendor |-> {},
     saveTo |-> TRUE],
    [category |-> "Credit Card Payment",
     desc |-> {"credit card", "card payment", "uob card", "dbs card", "ocbc card", "citi card", "amex", "american express", "paymt thru", "e-bank", "cyberb"},
     vendor |-> {},
     saveTo |-> FALSE],
    [category |-> "Income",
     desc |-> {"rebate", "cashback", "cash back", "reward", "one card additional"},
     vendor |-> {},
     saveTo |-> FALSE],
    [category |-> "Food & Dining",
     desc |-> {"grab", "foodpanda", "deliveroo", "restaurant", "cafe", "coffee", "mcdonald", "kfc", "subway", "starbucks", "toast box", "ya kun", "kopitiam", "food court", "hawker", "bakery", "bubble tea", "bbt", "gongcha", "koi", "liho", "mixue", "eatery", "dining"},
     vendor |-> {"cafe", "restaurant", "food", "coffee", "bakery", "kitchen"},
     saveTo |-> FALSE],
    [category |-> "Groceries",
     desc |-> {"ntuc", "fairprice", "cold storage", "giant", "sheng siong", "don don donki", "market", "grocer", "supermarket"},
     vendor |-> {"ntuc", "fairprice", "cold storage"},
     saveTo |-> FALSE],
    [category |-> "Transport",
     desc |-> {"bus/mrt", "ez-link", "transit", "simplygo", "grab transport", "gojek", "tada", "comfort", "taxi", "uber", "parking", "carpark", "petrol", "shell", "esso", "caltex", "spc", "lta"},
     vendor |-> {},
     saveTo |-> FALSE],
    [category |-> "Shopping",
     desc |-> {"shopee", "lazada", "amazon", "qoo10", "taobao", "uniqlo", "h&m", "zara", "cotton on", "ikea", "courts", "harvey norman", "best denki", "challenger"},
     vendor |-> {"shop", "store", "retail"},
     saveTo |-> FALSE],
    [category |-> "Subscriptions",
     desc |-> {"netflix", "spotify", "youtube", "disney", "apple", "google", "amazon prime", "hbo", "subscription", "membership", "recurring", "chatgpt", "openai", "github", "notion", "figma", "adobe"},
     vendor |-> {},
     saveTo |-> FALSE],
    [category |-> "Entertainment",
     desc |-> {"cinema", "movie", "golden village", "cathay", "shaw", "imax", "concert", "ticket", "event", "karaoke", "arcade", "bowling", "escape", "zoo", "safari", "sentosa", "uss", "attraction"},
     vendor |-> {},
     saveTo |-> FALSE],
    [category |-> "Bills",
     desc |-> {"singtel", "starhub", "m1", "circles", "giga", "sp services", "sp group", "utilities", "electricity", "water", "gas", "internet", "broadband", "mobile", "phone bill"},
     vendor |-> {},
     saveTo |-> FALSE],
    [category |-> "Tax",
     desc |-> {"iras", "income tax", "tax payment", "gst", "property tax"},
     vendor |-> {},
     saveTo |-> FALSE],
    [category |-> "Rent",
     desc |-> {"rent", "rental", "lease", "landlord", "tenancy"},
     vendor |-> {},
     saveTo |-> FALSE],
    [category |-> "Healthcare",
     desc |-> {"clinic", "hospital", "doctor", "medical", "pharmacy", "guardian", "watsons", "dental", "polyclinic", "health", "medisave"},
     vendor |-> {},
     saveTo |-> FALSE],
    [category |-> "Insurance",
     desc |-> {"insurance", "prudential", "aia", "great eastern", "ntuc income", "aviva", "manulife", "policy", "premium"},
     vendor |-> {},
     saveTo |-> FALSE],
    [category |-> "Education",
     desc |-> {"school", "university", "college", "tuition", "course", "udemy", "coursera", "skillsfuture", "education"},
     vendor |-> {},
     saveTo |-> FALSE],
    [category |-> "P2P Transfers",
     desc |-> {"paynow", "paylah", "pay lah"},
     vendor |-> {"paynow"},
     saveTo |-> FALSE],
    [category |-> "Transfers",
     desc |-> {"transfer", "paynow", "pib", "mbk", "giro"},
     vendor |-> {},
     saveTo |-> FALSE]
  >>

RuleMatches(r, desc, v) ==
  \/ r.saveTo /\ Includes(desc, "save")
       /\ (Includes(desc, "transfer") \/ Includes(desc, "to "))
  \/ \E k \in r.desc : Includes(desc, k)
  \/ \E k \in r.vendor : Includes(v, k)

\* the if-chain with the last matching predicate deciding
categorizeTransactionLastMatch(description, vendor) ==
  LET desc == toLowerCase(description)
      v    == IF Truthy(vendor) THEN toLowerCase(vendor[1]) ELSE ""
      hits == {i \in 1..Len(RULES) : RuleMatches(RULES[i], desc, v)}
  IN  IF hits = {} THEN "Other"
      ELSE RULES[CHOOSE i \in hits : \A j \in hits : i >= j].category

categorizeTransaction(description, vendor) ==
  LET desc == toLowerCase(description)
      v    == IF Truthy(vendor) THEN toLowerCase(vendor[1]) ELSE ""
      hits == {i \in 1..Len(RULES) : RuleMatches(RULES[i], desc, v)}
  IN  IF hits = {} THEN "Other"
      ELSE RULES[CHOOSE i \in hits : \A j \in hits : i <= j].category

(***************************************************************************)
(* Parser Registry (lib/parsers/registry.ts) and UOBParser.canParse        *)
(***************************************************************************)
\* UOBParser.canParse: confidence in hundredths
UOBcanParse(firstPageText) ==
  LET text == toLowerCase(firstPageText)
  IN  IF Includes(text, "uobgroup") \/ Includes(text, "united overseas bank")
        THEN 95
      ELSE IF Includes(text, "uob one") \/ Includes(text, "uob card")
        THEN 85
      ELSE IF Includes(text, "one account") /\ Includes(text, "singapore")
        THEN 60
      ELSE 0

\* the singleton uobParser; any other BankParser is represented by its
\* bankId and the confidence its canParse reports
uobParser == [bankId |-> "uob", impl |-> "UOBParser", conf |-> 0]

canParse(parser, firstPageText) ==
  IF parser.impl = "UOBParser" THEN UOBcanParse(firstPageText) ELSE parser.conf

\* ParserRegistryImpl.register
register(ps, parser) ==
  Append(SelectSeq(ps, LAMBDA p : p.bankId # parser.bankId), parser)

NoParser == [bankId |-> "none", impl |-> "null", conf |-> 0]

RECURSIVE findParserLoop(_, _, _, _, _)
\* the for-loop of findParser from index i on
findParserLoop(ps, i, firstPageText, bestParser, bestConfidence) ==
  IF i > Len(ps) THEN [parser |-> bestParser, confidence |-> bestConfidence]
  ELSE LET confidence == canParse(ps[i], firstPageText)
       IN  IF confidence > bestConfidence
             THEN findParserLoop(ps, i + 1, firstPageText, ps[i], confidence)
             ELSE findParserLoop(ps, i + 1, firstPageText, bestParser, bestConfidence)

ConfidenceThreshold == 50

\* findParser with the threshold test made strict
findParserAboveThreshold(ps, firstPageText) ==
  LET best == findParserLoop(ps, 1, firstPageText, NoParser, 0)
  IN  IF best.confidence > ConfidenceThreshold THEN best.parser ELSE NoParser

\* ParserRegistryImpl.findParser
findParser(ps, firstPageText) ==
  LET best == findParserLoop(ps, 1, firstPageText, NoParser, 0)
  IN  IF best.confidence >= ConfidenceThreshold THEN best.parser ELSE NoParser

(***************************************************************************)
(* Dates.  A Date is [valid, y, m, d] with m in 0..11 as getMonth() gives  *)
(* it; an Invalid Date has valid = FALSE and y = 0 (getFullYear() = NaN).  *)
(***************************************************************************)
InvalidDate == [valid |-> FALSE, y |-> 0, m |-> 0, d |-> 0]
MkDate(y, m, d) == [valid |-> TRUE, y |-> y, m |-> m, d |-> d]

IsLeap(y) == (y % 4 = 0 /\ y % 100 # 0) \/ y % 400 = 0
DaysIn(m, y) ==
  IF m = 1 THEN (IF IsLeap(y) THEN 29 ELSE 28)
  ELSE IF m \in {3, 5, 8, 10} THEN 30 ELSE 31

\* new Date(`${dateStr} ${year}`) for a token "DD Mon".  The format is not
\* the ISO one, so the result for a day beyond the month's length is the
\* engine's choice: "rollover" (V8: any day 1..31 is taken and carried into
\* the next month) or "strict" (Invalid Date).
ParseDate(tok, year, engine) ==
  IF year = 0 \/ tok.day < 1 \/ tok.day > 31 THEN InvalidDate
  ELSE IF tok.day <= DaysIn(tok.mon, year) THEN MkDate(year, tok.mon, tok.day)
  ELSE IF engine = "rollover"
    THEN MkDate(year, tok.mon + 1, tok.day - DaysIn(tok.mon, year))
  ELSE InvalidDate

\* start = new Date(end); start.setMonth(start.getMonth() - 1)
PrevMonth(date) ==
  IF ~date.valid THEN InvalidDate
  ELSE LET y == IF date.m = 0 THEN date.y - 1 ELSE date.y
           m == IF date.m = 0 THEN 11 ELSE date.m - 1
       IN  IF date.d <= DaysIn(m, y) THEN MkDate(y, m, date.d)
           ELSE MkDate(y, m + 1, date.d - DaysIn(m, y))

(***************************************************************************)
(* Statement Parser (lib/parsers/uob.ts and its older copy lib/pdfParser.ts)*)
(*                                                                         *)
(* A document is represented by what the parser's regular expressions      *)
(* match in it: firstPage is the header text the includes() tests read,    *)
(* periodMatch / stmtDateMatch are the dates captured by the two period    *)
(* patterns, and matches is the sequence of transaction-pattern matches in *)
(* text order.  A match carries its capture groups and, as line, its       *)
(* position in the text; payNowVendor is what extractPayNowVendor returns  *)
(* for its vendorInfo.                                                      *)
(***************************************************************************)
\* UOBParser.detectStatementType / pdfParser.ts detectStatementType
detectStatementType(impl, text) ==
  IF \/ Includes(text, "card.centre@uobgroup")
     \/ Includes(text, "Credit Card(s) Statement")
     \/ Includes(text, "UOB ONE CARD")
     \/ impl = "uob" /\ (Includes(text, "UOB VISA") \/ Includes(text, "UOB MASTERCARD"))
    THEN "credit_card"
  ELSE "bank"

\* extractPeriod; now is the clock read by new Date()
extractPeriod(doc, now) ==
  IF doc.periodMatch # <<>>
    THEN [start |-> doc.periodMatch[1].start, end |-> doc.periodMatch[1].end]
  ELSE IF doc.stmtDateMatch # <<>>
    THEN [start |-> PrevMonth(doc.stmtDateMatch[1]), end |-> doc.stmtDateMatch[1]]
  ELSE [start |-> now, end |-> now]

\* adjustDateForYearBoundary with the month test made strict
adjustDateAfterStartMonth(date, dateStr, period, engine) ==
  IF /\ period.start.valid /\ period.end.valid /\ date.valid
     /\ period.start.y < period.end.y
     /\ date.m > period.start.m
    THEN ParseDate(dateStr, period.start.y, engine)
  ELSE date

\* adjustDateForYearBoundary (uob.ts); the same test is inlined twice in
\* pdfParser.ts.  A comparison with NaN is false.
adjustDateForYearBoundary(date, dateStr, period, engine) ==
  IF /\ period.start.valid /\ period.end.valid /\ date.valid
     /\ period.start.y < period.end.y
     /\ date.m >= period.start.m
    THEN ParseDate(dateStr, period.start.y, engine)
  ELSE date

\* the denylist of parseBankTransactions' scan loop
IsBoilerplate(description) ==
  \/ Includes(description, "BALANCE B/F")
  \/ Includes(description, "Page ")
  \/ Includes(description, "Account Transaction")
  \/ Includes(description, "Date Description")
  \/ Includes(description, "SGD SGD")
  \/ Len(description) < 3

IsInflow(description) ==
  \/ Includes(description, "Inward")
  \/ Includes(description, "Cash Deposit")
  \/ Includes(description, "Bonus Interest")
  \/ /\ Includes(description, "PAYNOW")
     /\ ~Includes(description, "PIB")
     /\ ~Includes(description, "MBK")

Abs(n) == IF n < 0 THEN -n ELSE n
Min(a, b) == IF a < b THEN a ELSE b

\* String.prototype.substring(0, n)
Substring0(s, n) == SubSeq(s, 1, Min(n, Len(s)))

(***************************************************************************)
(* The older rule categoriser local to lib/pdfParser.ts, the one            *)
(* parseStatement uses                                                      *)
(***************************************************************************)
VENDOR_CATEGORIES ==
  <<
    [keyword |-> "totofish", category |-> "Food & Dining"],
    [keyword |-> "porky", category |-> "Food & Dining"],
    [keyword |-> "mahan", category |-> "Food & Dining"],
    [keyword |-> "aarya", category |-> "Food & Dining"],
    [keyword |-> "baoyuan", category |-> "Food & Dining"],
    [keyword |-> "fish", category |-> "Food & Dining"],
    [keyword |-> "pancake", category |-> "Food & Dining"],
    [keyword |-> "restaurant", category |-> "Food & Dining"],
    [keyword |-> "cafe", category |-> "Food & Dining"],
    [keyword |-> "food", category |-> "Food & Dining"],
    [keyword |-> "kitchen", category |-> "Food & Dining"],
    [keyword |-> "bakery", category |-> "Food & Dining"],
    [keyword |-> "noodle", category |-> "Food & Dining"],
    [keyword |-> "rice", category |-> "Food & Dining"],
    [keyword |-> "chicken", category |-> "Food & Dining"],
    [keyword |-> "prata", category |-> "Food & Dining"],
    [keyword |-> "kopitiam", category |-> "Food & Dining"],
    [keyword |-> "climbing", category |-> "Entertainment"],
    [keyword |-> "piano", category |-> "Entertainment"],
    [keyword |-> "gym", category |-> "Entertainment"],
    [keyword |-> "fitness", category |-> "Entertainment"],
    [keyword |-> "rental", category |-> "Rent"],
    [keyword |-> "rent", category |-> "Rent"]
  >>

\* categorizeByVendor: the first keyword, in table order, the vendor contains
categorizeByVendor(vendor) ==
  LET v    == toLowerCase(vendor)
      hits == {i \in 1..Len(VENDOR_CATEGORIES) : Includes(v, VENDOR_CATEGORIES[i].keyword)}
  IN  IF hits = {} THEN Undefined
      ELSE Some(VENDOR_CATEGORIES[CHOOSE i \in hits : \A j \in hits : i <= j].category)

\* the if-chain of pdfParser.ts categorizeTransaction; kind names the three
\* tests that are not a plain disjunction of includes()
LEGACY_RULES ==
  <<
    [category |-> "Entertainment", kind |-> "any", desc |-> {"climbing"}, vendor |-> {"climbing"}],
    [category |-> "Entertainment", kind |-> "any", desc |-> {"piano"}, vendor |-> {"piano"}],
    [category |-> "Rent", kind |-> "any", desc |-> {"rental", "rent"}, vendor |-> {"rental"}],
    [category |-> "Food & Dining", kind |-> "any", desc |-> {"dinner", "lunch", "breakfast"}, vendor |-> {}],
    [category |-> "Transport", kind |-> "any", desc |-> {"bus/mrt", "grab", "gojek", "easyvan", "comfort", "taxi"}, vendor |-> {}],
    [category |-> "Groceries", kind |-> "any", desc |-> {"ntuc", "fairprice", "cold storage", "sheng siong", "giant", "prime"}, vendor |-> {}],
    [category |-> "Food & Dining", kind |-> "any", desc |-> {"mcdonald", "burger", "kfc", "food", "restaurant", "cafe", "coffee", "huang tu di", "mixue", "pancake", "porky", "fish", "mahan", "aarya", "baoyuan", "totofish"}, vendor |-> {}],
    [category |-> "Shopping", kind |-> "any", desc |-> {"shopee", "lazada", "amazon", "taobao", "qoo10"}, vendor |-> {}],
    [category |-> "Subscriptions", kind |-> "any", desc |-> {"apple.com", "spotify", "netflix", "patreon", "youtube", "disney", "membership"}, vendor |-> {}],
    [category |-> "Tax", kind |-> "any", desc |-> {"iras", "tax", "itx"}, vendor |-> {}],
    [category |-> "Investments", kind |-> "any", desc |-> {"interactive brokers", "tiger brokers", "moomoo", "syfe", "stashaway", "endowus", "dbs vickers", "poems", "saxo", "investment", "broker", "cpf", "srs"}, vendor |-> {}],
    [category |-> "Savings", kind |-> "any", desc |-> {"savings", "fixed deposit", "time deposit", "fd account"}, vendor |-> {}],
    [category |-> "Income", kind |-> "any", desc |-> {"carousell", "stripe", "inward credit", "cash deposit", "salary", "bonus interest"}, vendor |-> {}],
    [category |-> "Convenience", kind |-> "any", desc |-> {"ijooz", "7-eleven", "cheers"}, vendor |-> {}],
    [category |-> "Credit Card Payment", kind |-> "cardPayment", desc |-> {"uob cards", "uob card"}, vendor |-> {}],
    [category |-> "Bills", kind |-> "any", desc |-> {"bill payment", "utilities", "singtel", "starhub", "m1"}, vendor |-> {}],
    [category |-> "P2P Transfers", kind |-> "personName", desc |-> {"paynow", "pib", "mbk"}, vendor |-> {}],
    [category |-> "Transfers", kind |-> "any", desc |-> {"transfer", "paynow", "pib", "mbk", "giro"}, vendor |-> {}],
    [category |-> "Other Spending", kind |-> "any", desc |-> {"nets debit"}, vendor |-> {}]
  >>

RECURSIVE SpaceRuns(_)
\* the number of maximal runs of spaces in s
SpaceRuns(s) ==
  IF Len(s) = 0 THEN 0
  ELSE (IF SubSeq(s, 1, 1) = " " /\ (Len(s) = 1 \/ SubSeq(s, 2, 2) # " ") THEN 1 ELSE 0)
       + SpaceRuns(SubSeq(s, 2, Len(s)))

\* vendor.split(/\s+/).length
WordsLength(s) == SpaceRuns(s) + 1

LegacyRuleMatches(r, desc, vendor, vendorLower) ==
  IF r.kind = "cardPayment"
    THEN \/ \E k \in r.desc : Includes(desc, k)
         \/ Includes(desc, "bill payment") /\ Includes(desc, "mbk-uob")
  ELSE IF r.kind = "personName"
    THEN /\ \E k \in r.desc : Includes(desc, k)
         /\ Truthy(vendor)
         /\ WordsLength(vendor[1]) >= 2 /\ WordsLength(vendor[1]) <= 4
         /\ ~Includes(vendorLower, "pte") /\ ~Includes(vendorLower, "ltd")
         /\ ~Includes(vendorLower, "restaurant") /\ ~Includes(vendorLower, "cafe")
  ELSE \/ \E k \in r.desc : Includes(desc, k)
       \/ \E k \in r.vendor : Includes(vendorLower, k)

\* pdfParser.ts categorizeTransaction
legacyCategorizeTransaction(description, vendor) ==
  LET desc        == toLowerCase(description)
      vendorLower == IF Truthy(vendor) THEN toLowerCase(vendor[1]) ELSE ""
      byVendor    == IF Truthy(vendor) THEN categorizeByVendor(vendor[1]) ELSE Undefined
      hits        == {i \in 1..Len(LEGACY_RULES) :
                        LegacyRuleMatches(LEGACY_RULES[i], desc, vendor, vendorLower)}
  IN  IF byVendor # Undefined THEN byVendor[1]
      ELSE IF hits = {} THEN "Other"
      ELSE LEGACY_RULES[CHOOSE i \in hits : \A j \in hits : i <= j].category

RECURSIVE CollapseSpaces(_)
\* s.replace(/\s+/g, ' ')
CollapseSpaces(s) ==
  IF Len(s) < 2 THEN s
  ELSE IF SubSeq(s, 1, 1) = " " /\ SubSeq(s, 2, 2) = " "
    THEN CollapseSpaces(SubSeq(s, 2, Len(s)))
  ELSE SubSeq(s, 1, 1) \o CollapseSpaces(SubSeq(s, 2, Len(s)))

RECURSIVE Trim(_)
\* String.prototype.trim
Trim(s) ==
  IF Len(s) = 0 THEN s
  ELSE IF SubSeq(s, 1, 1) = " " THEN Trim(SubSeq(s, 2, Len(s)))
  ELSE IF SubSeq(s, Len(s), Len(s)) = " " THEN Trim(SubSeq(s, 1, Len(s) - 1))
  ELSE s

BankDescriptionMax == 150
CardDescriptionMax == 100
\* "Skip small interest entries": Math.abs(amount) < 50, in cents
SmallInterest == 5000

\* Math.round(amount * 100) / 100: amounts are whole cents here, and the
\* floating-point error of a difference of two-decimal numbers is far below
\* half a cent, so rounding returns the cent value itself
RoundCents(amount) == amount

\* amount of a bank entry: the balance change, or for the first entry the
\* inflow heuristic
BankAmountFirstOnly(m, prevBalance) ==
  IF IsInflow(m.description) THEN m.txAmount ELSE -m.txAmount

BankAmount(m, prevBalance) ==
  IF prevBalance # <<>> THEN m.balance - prevBalance[1]
  ELSE IF IsInflow(m.description) THEN m.txAmount ELSE -m.txAmount

Categorize(impl, description, vendor) ==
  IF impl = "uob" THEN categorizeTransaction(description, vendor)
  ELSE legacyCategorizeTransaction(description, vendor)

\* the transaction pushed for the raw match m
BankTransaction(impl, m, amount, date) ==
  LET vendor == IF Includes(m.description, "PAYNOW") \/ Includes(m.description, "NETS")
                  THEN m.payNowVendor ELSE Undefined
      fullDescription ==
        IF m.vendorInfo # ""
          THEN Trim(CollapseSpaces(m.description \o " " \o m.vendorInfo))
          ELSE m.description
  IN  [date           |-> date,
       description    |-> Substring0(fullDescription, BankDescriptionMax),
       amount         |-> RoundCents(amount),
       balance        |-> Some(m.balance),
       vendor         |-> vendor,
       source         |-> "bank",
       rawText        |-> m.line,
       category       |-> Categorize(impl, fullDescription, vendor),
       categorySource |-> IF impl = "uob" THEN "rules" ELSE "none",
       hidden         |-> FALSE]

RECURSIVE processBank(_, _, _, _, _, _, _)
\* the second loop of parseBankTransactions, from rawMatches[i] on
processBank(impl, rawMatches, i, prevBalance, year, period, engine) ==
  IF i > Len(rawMatches) THEN <<>>
  ELSE
    LET m      == rawMatches[i]
        amount == BankAmount(m, prevBalance)
        date   == ParseDate(m, year, engine)
        rest   == processBank(impl, rawMatches, i + 1, Some(m.balance), year, period, engine)
    IN  IF Includes(m.description, "Interest") /\ Abs(amount) < SmallInterest THEN rest
        ELSE IF ~date.valid THEN rest
        ELSE <<BankTransaction(impl, m, amount,
                 adjustDateForYearBoundary(date, m, period, engine))>> \o rest

\* parseBankTransactions
parseBankTransactions(impl, matches, year, period, engine) ==
  LET trimmed    == [i \in 1..Len(matches) |->
                      [matches[i] EXCEPT !.description = Trim(@),
                                         !.vendorInfo = Trim(@)]]
      rawMatches == SelectSeq(trimmed, LAMBDA m : ~IsBoilerplate(m.description))
  IN  processBank(impl, rawMatches, 1, Undefined, year, period, engine)

RECURSIVE processCard(_, _, _, _, _, _)
\* the loop of parseCreditCardTransactions, from matches[i] on
processCard(impl, matches, i, year, period, engine) ==
  IF i > Len(matches) THEN <<>>
  ELSE
    LET m           == matches[i]
        description == Trim(m.description)
        date        == ParseDate(m, year, engine)
        rest        == processCard(impl, matches, i + 1, year, period, engine)
    IN  IF \/ Includes(description, "PREVIOUS BALANCE")
           \/ impl = "legacy" /\ Includes(description, "PAYMT THRU")
          THEN rest
        ELSE <<[date           |-> adjustDateForYearBoundary(date, m, period, engine),
                description    |-> Substring0(CollapseSpaces(description), CardDescriptionMax),
                amount         |-> IF m.cr THEN m.txAmount ELSE -m.txAmount,
                balance        |-> Undefined,
                vendor         |-> Undefined,
                source         |-> "credit_card",
                rawText        |-> m.line,
                category       |-> Categorize(impl, description, Undefined),
                categorySource |-> IF impl = "uob" THEN "rules" ELSE "none",
                hidden         |-> FALSE]>> \o rest

\* parseCreditCardTransactions
parseCreditCardTransactions(impl, matches, year, period, engine) ==
  processCard(impl, matches, 1, year, period, engine)

\* UOBParser.parseTransactions
parseTransactions(matches, type, period, engine) ==
  IF type = "bank"
    THEN parseBankTransactions("uob", matches, period.end.y, period, engine)
    ELSE parseCreditCardTransactions("uob", matches, period.end.y, period, engine)

\* pdfParser.ts parseStatement; the registry is not consulted
parseStatement(file, now, engine) ==
  LET type   == detectStatementType("legacy", file.firstPage)
      period == extractPeriod(file, now)
      year   == period.end.y
  IN  [filename     |-> file.name,
       type         |-> type,
       periodStart  |-> period.start,
       periodEnd    |-> period.end,
       transactions |->
         IF type = "bank"
           THEN parseBankTransactions("legacy", file.matches, year, period, engine)
           ELSE parseCreditCardTransactions("legacy", file.matches, year, period, engine)]

(***************************************************************************)
(* Embeddings (lib/embeddings.ts).  A vector is a pair of integers of      *)
(* Euclidean norm 5, standing for a normalised Float32Array; a similarity  *)
(* is in hundredths, so 1.0 is 100.  A Map is the sequence of its entries  *)
(* [key, value] in insertion order.                                        *)
(***************************************************************************)
\* Object.keys(CATEGORY_EXEMPLARS)
CATEGORIES ==
  <<"Income", "Investments", "Savings", "Credit Card Payment", "Food & Dining",
    "Groceries", "Transport", "Shopping", "Subscriptions", "Entertainment", "Bills",
    "Tax", "Rent", "Healthcare", "Insurance", "Education", "P2P Transfers", "Transfers">>

\* the text embedded for a category: its exemplars joined by spaces,
\* represented by the category's name
ExemplarText(category) == category

\* the feature-extraction model on the texts that occur
EmbeddingTable ==
  [t \in {"GRAB* RIDE 12345", "GRAB* RIDE 67890", "GRAB* RIDE 24680",
          "NETFLIX.COM SINGAPORE", "MYSTERY SHOP",
          "Transport", "Subscriptions", "Shopping", "Food & Dining", "Entertainment"} |->
     CASE t = "GRAB* RIDE 12345"      -> <<4, 3>>
       [] t = "GRAB* RIDE 67890"      -> <<3, 4>>
       [] t = "GRAB* RIDE 24680"      -> <<3, 4>>
       [] t = "NETFLIX.COM SINGAPORE" -> <<-4, 3>>
       [] t = "MYSTERY SHOP"          -> <<0, 5>>
       [] t = "Transport"             -> <<5, 0>>
       [] t = "Subscriptions"         -> <<-4, 3>>
       [] t = "Shopping"              -> <<-3, 4>>
       [] t = "Food & Dining"         -> <<4, -3>>
       [] t = "Entertainment"         -> <<-5, 0>>]

\* extractor(text, {pooling: 'mean', normalize: true})
getEmbedding(text) ==
  IF text \in DOMAIN EmbeddingTable THEN EmbeddingTable[text] ELSE <<0, -5>>

\* the dot product of two normalised vectors, in hundredths
cosineSimilarity(a, b) == (a[1] * b[1] + a[2] * b[2]) * 4

MapHas(map, key) == \E i \in 1..Len(map) : map[i].key = key
MapGet(map, key) == map[CHOOSE i \in 1..Len(map) : map[i].key = key].value
\* Map.prototype.set: an existing key keeps its place
MapSet(map, key, value) ==
  IF MapHas(map, key)
    THEN [i \in 1..Len(map) |->
            IF map[i].key = key THEN [key |-> key, value |-> value] ELSE map[i]]
    ELSE Append(map, [key |-> key, value |-> value])

\* the embedding cache is a function from its keys
EmptyCache == [k \in {} |-> <<0, 0>>]
CacheSet(cache, key, embedding) ==
  [k \in DOMAIN cache \cup {key} |-> IF k = key THEN embedding ELSE cache[k]]

getTxCacheKey(description, vendor) ==
  IF Truthy(vendor) THEN description \o "|" \o vendor[1] ELSE description

\* the text getTransactionEmbedding and categorizeWithEmbeddings embed
TxText(description, vendor) ==
  IF Truthy(vendor) THEN description \o " " \o vendor[1] ELSE description

USER_MAPPING_BOOST == 25
CONFIDENCE_THRESHOLD == 80
SimilarityThreshold == 85

RECURSIVE BestOf(_, _, _)
\* the running maximum of the two for-loops of categorizeWithEmbeddingSync:
\* a later score replaces the best one only when it is greater
BestOf(scores, i, best) ==
  IF i > Len(scores) THEN best
  ELSE BestOf(scores, i + 1, IF scores[i].score > best.score THEN scores[i] ELSE best)

\* the body of categorizeWithEmbeddingSync for a given boost
ClassifyWithBoost(embedding, catEmbeddings, userEmbeddings, boost) ==
  IF catEmbeddings = Undefined THEN [category |-> "Other", confidence |-> 0]
  ELSE LET userScores ==
             [i \in 1..Len(userEmbeddings) |->
                [category |-> userEmbeddings[i].value.category,
                 score    |-> cosineSimilarity(embedding, userEmbeddings[i].value.embedding)
                                + boost]]
           catScores ==
             [i \in 1..Len(catEmbeddings[1]) |->
                [category |-> catEmbeddings[1][i].key,
                 score    |-> cosineSimilarity(embedding, catEmbeddings[1][i].value)]]
           best == BestOf(userScores \o catScores, 1, [category |-> "Other", score |-> -100])
       IN  IF best.score < CONFIDENCE_THRESHOLD
             THEN [category |-> "Other", confidence |-> best.score]
             ELSE [category |-> best.category, confidence |-> Min(best.score, 100)]

\* categorizeWithEmbeddingSync without the boost of user corrections
categorizeWithoutBoost(embedding, catEmbeddings, userEmbeddings) ==
  ClassifyWithBoost(embedding, catEmbeddings, userEmbeddings, 0)

\* categorizeWithEmbeddingSync, on the exemplar table and the correction
\* vector table it reads
categorizeWithEmbeddingSync(embedding, catEmbeddings, userEmbeddings) ==
  ClassifyWithBoost(embedding, catEmbeddings, userEmbeddings, USER_MAPPING_BOOST)

\* the state of the module a call reads: st.extractor, st.categoryEmbeddings,
\* st.userDefinedMappings, st.userMappingEmbeddings, st.cache.  A call returns
\* its result, the cache it leaves and the number of getEmbedding calls made.

\* the tail of categorizeWithEmbeddings: the cached vector, or a computed
\* one that is cached and saved, classified
ClassifyCachedOrComputed(description, vendor, st) ==
  LET key    == getTxCacheKey(description, vendor)
      cached == key \in DOMAIN st.cache
      cache  == IF cached THEN st.cache
                ELSE CacheSet(st.cache, key, getEmbedding(TxText(description, vendor)))
  IN  [result |-> Some(categorizeWithEmbeddingSync(cache[key], st.categoryEmbeddings,
                                                   st.userMappingEmbeddings)),
       cache  |-> cache, calls |-> IF cached THEN 0 ELSE 1]

\* categorizeWithEmbeddings without the exact-match short-circuit
categorizeWithoutExactMatch(description, vendor, st) ==
  IF st.categoryEmbeddings = Undefined \/ ~st.extractor
    THEN [result |-> Some([category |-> "Other", confidence |-> 0]),
          cache |-> st.cache, calls |-> 0]
  ELSE ClassifyCachedOrComputed(description, vendor, st)

categorizeWithEmbeddings(description, vendor, st) ==
  IF st.categoryEmbeddings = Undefined \/ ~st.extractor
    THEN [result |-> Some([category |-> "Other", confidence |-> 0]),
          cache |-> st.cache, calls |-> 0]
  ELSE IF MapHas(st.userDefinedMappings, description)
    THEN [result |-> Some([category |-> MapGet(st.userDefinedMappings, description),
                           confidence |-> 100]),
          cache |-> st.cache, calls |-> 0]
  ELSE ClassifyCachedOrComputed(description, vendor, st)

\* a fast path that computes the vector it does not find
categorizeWithEmbeddingsComputing(description, vendor, st) ==
  categorizeWithEmbeddings(description, vendor, st)

\* null is Undefined
categorizeWithEmbeddingsFast(description, vendor, st) ==
  IF st.categoryEmbeddings = Undefined
    THEN [result |-> Undefined, cache |-> st.cache, calls |-> 0]
  ELSE IF MapHas(st.userDefinedMappings, description)
    THEN [result |-> Some([category |-> MapGet(st.userDefinedMappings, description),
                           confidence |-> 100]),
          cache |-> st.cache, calls |-> 0]
  ELSE LET key == getTxCacheKey(description, vendor)
       IN  [result |-> IF key \in DOMAIN st.cache
                         THEN Some(categorizeWithEmbeddingSync(st.cache[key],
                                     st.categoryEmbeddings, st.userMappingEmbeddings))
                         ELSE Undefined,
            cache |-> st.cache, calls |-> 0]

isModelReady(st) == st.categoryEmbeddings # Undefined /\ st.extractor

\* getTransactionEmbedding: null when the model is not loaded
getTransactionEmbedding(description, vendor, st) ==
  LET key == getTxCacheKey(description, vendor)
  IN  IF ~st.extractor THEN [result |-> Undefined, cache |-> st.cache, calls |-> 0]
      ELSE IF key \in DOMAIN st.cache
        THEN [result |-> Some(st.cache[key]), cache |-> st.cache, calls |-> 0]
      ELSE LET embedding == getEmbedding(TxText(description, vendor))
           IN  [result |-> Some(embedding), cache |-> CacheSet(st.cache, key, embedding),
                calls |-> 1]

\* learnUserCategory: the correction map, the correction vector table and the
\* saved record it leaves; saveUserMappings catches a failure of the store
learnUserCategory(description, category, st) ==
  IF ~st.extractor THEN st
  ELSE LET mappings == MapSet(st.userDefinedMappings, description, category)
       IN  [st EXCEPT !.userDefinedMappings   = mappings,
                      !.userMappingEmbeddings =
                         MapSet(@, description,
                                [category |-> category, embedding |-> getEmbedding(description)]),
                      !.idbMappings           =
                         IF st.idbFault = "none" THEN Some(mappings) ELSE @]

RECURSIVE InsertDesc(_, _)
\* results.sort((a, b) => b.similarity - a.similarity), a stable sort
InsertDesc(sorted, r) ==
  IF sorted = <<>> THEN <<r>>
  ELSE IF Head(sorted).similarity >= r.similarity
    THEN <<Head(sorted)>> \o InsertDesc(Tail(sorted), r)
  ELSE <<r>> \o sorted

RECURSIVE SortDesc(_)
SortDesc(results) ==
  IF results = <<>> THEN <<>>
  ELSE InsertDesc(SortDesc(SubSeq(results, 1, Len(results) - 1)), results[Len(results)])

RECURSIVE FastScan(_, _, _, _, _, _, _)
\* the for-loop of findSimilarTransactionsFast from index i (0-based) on;
\* skipHidden is true in the source
FastScan(targetDescription, targetVendor, allTransactions, threshold, cache, i, skipHidden) ==
  IF i >= Len(allTransactions) THEN <<>>
  ELSE
    LET tx   == allTransactions[i + 1]
        key  == getTxCacheKey(tx.description, tx.vendor)
        rest == FastScan(targetDescription, targetVendor, allTransactions, threshold,
                         cache, i + 1, skipHidden)
    IN  IF skipHidden /\ tx.hidden THEN rest
        ELSE IF tx.description = targetDescription /\ tx.vendor = targetVendor THEN rest
        ELSE IF key \notin DOMAIN cache THEN rest
        ELSE LET similarity ==
                   cosineSimilarity(cache[getTxCacheKey(targetDescription, targetVendor)],
                                    cache[key])
             IN  IF similarity >= threshold
                   THEN <<[index |-> i, similarity |-> similarity]>> \o rest
                   ELSE rest

\* findSimilarTransactionsFast without the test of the hidden flag
findSimilarIncludingHidden(targetDescription, targetVendor, allTransactions, threshold, cache) ==
  IF getTxCacheKey(targetDescription, targetVendor) \notin DOMAIN cache THEN <<>>
  ELSE SortDesc(FastScan(targetDescription, targetVendor, allTransactions, threshold,
                         cache, 0, FALSE))

findSimilarTransactionsFast(targetDescription, targetVendor, allTransactions, threshold, cache) ==
  IF getTxCacheKey(targetDescription, targetVendor) \notin DOMAIN cache THEN <<>>
  ELSE SortDesc(FastScan(targetDescription, targetVendor, allTransactions, threshold,
                         cache, 0, TRUE))

RECURSIVE FullScan(_, _, _, _, _, _, _, _, _)
\* the for-loop of findSimilarTransactions from index i (0-based) on, with
\* the results, the cache and the number of getEmbedding calls so far
FullScan(targetDescription, targetVendor, allTransactions, threshold, processedKeys, i, results, cache, calls) ==
  IF i >= Len(allTransactions)
    THEN [result |-> SortDesc(results), cache |-> cache, calls |-> calls]
  ELSE
    LET tx  == allTransactions[i + 1]
        key == getTxCacheKey(tx.description, tx.vendor)
    IN  IF \/ tx.hidden
           \/ tx.description = targetDescription /\ tx.vendor = targetVendor
           \/ key \in processedKeys
           \/ key \in DOMAIN cache
          THEN FullScan(targetDescription, targetVendor, allTransactions, threshold,
                        processedKeys, i + 1, results, cache, calls)
        ELSE
          LET txEmbedding == getEmbedding(TxText(tx.description, tx.vendor))
              similarity  ==
                cosineSimilarity(cache[getTxCacheKey(targetDescription, targetVendor)],
                                 txEmbedding)
          IN  FullScan(targetDescription, targetVendor, allTransactions, threshold,
                       processedKeys, i + 1,
                       IF similarity >= threshold
                         THEN Append(results, [index |-> i, similarity |-> similarity])
                         ELSE results,
                       CacheSet(cache, key, txEmbedding), calls + 1)

\* findSimilarTransactions
findSimilarTransactions(targetDescription, targetVendor, allTransactions, threshold, st) ==
  IF ~st.extractor THEN [result |-> <<>>, cache |-> st.cache, calls |-> 0]
  ELSE
    LET target      == getTransactionEmbedding(targetDescription, targetVendor, st)
        fastResults == findSimilarTransactionsFast(targetDescription, targetVendor,
                                                   allTransactions, threshold, target.cache)
        cachedCount ==
          Cardinality({i \in 1..Len(allTransactions) :
                         getTxCacheKey(allTransactions[i].description,
                                       allTransactions[i].vendor) \in DOMAIN target.cache})
        processedKeys ==
          {getTxCacheKey(allTransactions[fastResults[k].index + 1].description,
                         allTransactions[fastResults[k].index + 1].vendor) :
             k \in 1..Len(fastResults)}
    IN  IF cachedCount * 10 > Len(allTransactions) * 8
          THEN [result |-> fastResults, cache |-> target.cache, calls |-> target.calls]
          ELSE FullScan(targetDescription, targetVendor, allTransactions, threshold,
                        processedKeys, 0, fastResults, target.cache, target.calls)

(***************************************************************************)
(* Inputs of the parser and rule-engine specifications                     *)
(***************************************************************************)
MaxUnits == 3
MaxDatedUnits == 2
MaxParsers == 2

BoundedSeq(S, n) == UNION {[1..k -> S] : k \in 0..n}

\* the matches of one document, stamped with their position in the text
Stamp(units) == [i \in 1..Len(units) |-> [units[i] EXCEPT !.line = i]]

\* "02 Jan  Misc Debit  30.00  1,000.00"
BaseUnit ==
  [line |-> 0, day |-> 2, mon |-> 0, description |-> "Misc Debit", txAmount |-> 3000,
   balance |-> 100000, vendorInfo |-> "", payNowVendor |-> Undefined, cr |-> FALSE]

\* "31 Dec", "02 Jan", "31 Nov", which is no calendar day, and "32 Jan",
\* which \d{1,2} matches and no engine parses
DateTokens ==
  {[day |-> 31, mon |-> 11], [day |-> 2, mon |-> 0], [day |-> 31, mon |-> 10],
   [day |-> 32, mon |-> 0]}

\* bank lines whose balances chain, one of them with an unparseable date
ChainUnits ==
     {[BaseUnit EXCEPT !.description = d, !.balance = b] :
        d \in {"Misc Debit", "Interest Credit", "BALANCE B/F"},
        b \in {100000, 100030}}
  \cup {[BaseUnit EXCEPT !.day = 31, !.mon = 10, !.balance = 94000]}

\* bank lines of each date token, a purchase at a convenience store, and a
\* PayNow line with its continuation
DatedUnits ==
     {[BaseUnit EXCEPT !.day = t.day, !.mon = t.mon] : t \in DateTokens}
  \cup {[BaseUnit EXCEPT !.description = "CHEERS", !.balance = 99000]}
  \cup {[BaseUnit EXCEPT !.description = "PAYNOW-FAST", !.balance = 97000,
                         !.vendorInfo = "PAYNOW OTHR JOHN TAN",
                         !.payNowVendor = Some("John Tan")]}

CardUnits ==
     {[BaseUnit EXCEPT !.description = d, !.cr = c, !.balance = 0] :
        d \in {"NETFLIX.COM SINGAPORE", "PREVIOUS BALANCE", "PAYMT THRU E-BANK"},
        c \in BOOLEAN}
  \cup {[BaseUnit EXCEPT !.description = "GRAB* RIDE 12345", !.balance = 0,
                         !.day = t.day, !.mon = t.mon] : t \in DateTokens}

\* first-page texts: a UOB account, an account of a bank no parser knows,
\* and a UOB card
BankHeaders == {"UNITED OVERSEAS BANK Statement of Account", "DBS Bank Statement of Account"}
CardHeaders == {"UOB ONE CARD Credit Card(s) Statement"}

\* "Period: 28 Dec 2024 to 05 Jan 2025", "Period: 01 Jul 2025 to 31 Jul 2025",
\* "Statement Date 16 JAN 2025", and a page with neither pattern
YearEndPeriod == [start |-> MkDate(2024, 11, 28), end |-> MkDate(2025, 0, 5)]
JulyPeriod    == [start |-> MkDate(2025, 6, 1), end |-> MkDate(2025, 6, 31)]
PeriodTexts ==
  {[periodMatch |-> Some(YearEndPeriod), stmtDateMatch |-> Undefined],
   [periodMatch |-> Some(JulyPeriod), stmtDateMatch |-> Undefined],
   [periodMatch |-> Undefined, stmtDateMatch |-> Some(MkDate(2025, 0, 16))],
   [periodMatch |-> Undefined, stmtDateMatch |-> Undefined]}

Clock == {MkDate(2024, 11, 31), MkDate(2025, 0, 1)}
Engines == {"rollover", "strict"}

Document(h, p, us) ==
  [name |-> "statement.pdf", firstPage |-> h, periodMatch |-> p.periodMatch,
   stmtDateMatch |-> p.stmtDateMatch, matches |-> Stamp(us)]

Files ==
       {Document(h, [periodMatch |-> Some(JulyPeriod), stmtDateMatch |-> Undefined], us) :
          h \in BankHeaders, us \in BoundedSeq(ChainUnits, MaxUnits)}
  \cup {Document(h, p, us) :
          h \in BankHeaders, p \in PeriodTexts, us \in BoundedSeq(DatedUnits, MaxDatedUnits)}
  \cup {Document(h, p, us) :
          h \in CardHeaders, p \in PeriodTexts, us \in BoundedSeq(CardUnits, MaxDatedUnits)}

(***************************************************************************)
(* State                                                                   *)
(***************************************************************************)
VARIABLES
  \* the environment: the clock new Date() reads, the engine's date parser,
  \* and how IndexedDB fails in this session ("none": it does not, "open":
  \* indexedDB.open fails, "request": a request on an open store fails)
  now, engine, idbFault,
  \* a file being ingested, what UOBParser makes of it, and what it makes of
  \* it when run again
  file, uobParsed, uobReparsed,
  \* a call of the rule engine
  ruleArg, ruleRet,
  \* the parser registry and a call of findParser
  parsers, firstPageText, found,
  \* App.tsx state
  statements, selectedFiles, error, isHydrated,
  \* embeddings.ts: module state; initStage is the point initializeEmbeddings
  \* has reached (isInitializing and initPromise follow from it)
  extractor, categoryEmbeddings, initStage,
  userDefinedMappings, userMappingEmbeddings, transactionEmbeddingCache,
  \* IndexedDB: the correction record, the vector store, the statements
  idbMappings, idbEmbeddings, idbStatements,
  \* TransactionTable.tsx: the confirmation dialog
  similarTxModal,
  \* the last call of an exported function of embeddings.ts and what it returned
  ret,
  \* operations the user may still start
  budget,
  \* the asynchronous operations in flight, each at the await it has reached
  tasks

envVars      == <<now, engine, idbFault>>
parseVars    == <<file, uobParsed, uobReparsed>>
ruleVars     == <<ruleArg, ruleRet>>
registryVars == <<parsers, firstPageText, found>>
embedVars    == <<extractor, categoryEmbeddings, initStage, userDefinedMappings,
                  userMappingEmbeddings, transactionEmbeddingCache>>
idbVars      == <<idbMappings, idbEmbeddings, idbStatements>>
appVars      == <<statements, selectedFiles, error, isHydrated, embedVars, idbVars,
                  similarTxModal, ret, budget, tasks>>
vars == <<envVars, parseVars, ruleVars, registryVars, appVars>>

NoCall ==
  [op |-> "none", description |-> "", vendor |-> Undefined, result |-> Undefined,
   calls |-> 0, targetCached |-> FALSE, raised |-> FALSE]

\* no operation in flight: the calls of learnUserCategory awaiting, all calls
\* of it in the order issued, the save handlers awaiting, the bulk
\* recategorization pass, the precompute passes, and the statements the
\* precompute effect last ran for
NoTasks ==
  [learns |-> <<>>, learnLog |-> <<>>, saves |-> <<>>, recat |-> Undefined,
   precomputes |-> <<>>, effectDeps |-> <<>>, mappingOps |-> <<>>]

\* values of the variables a specification does not use
IdleParse    == file = <<>> /\ uobParsed = <<>> /\ uobReparsed = <<>>
IdleRule     == ruleArg = <<>> /\ ruleRet = <<>>
IdleRegistry == parsers = <<uobParser>> /\ firstPageText = "" /\ found = <<>>
IdleEnv      == now = MkDate(2025, 0, 1) /\ engine = "strict" /\ idbFault = "none"
IdleEmbed ==
  /\ extractor = FALSE /\ categoryEmbeddings = Undefined /\ initStage = "idle"
  /\ userDefinedMappings = <<>> /\ userMappingEmbeddings = <<>>
  /\ transactionEmbeddingCache = EmptyCache
IdleApp ==
  /\ statements = <<>> /\ selectedFiles = {} /\ error = "" /\ isHydrated = FALSE
  /\ IdleEmbed
  /\ idbMappings = Undefined /\ idbEmbeddings = EmptyCache /\ idbStatements = <<>>
  /\ similarTxModal = Undefined /\ ret = NoCall /\ budget = 0 /\ tasks = NoTasks

(***************************************************************************)
(* App.tsx: ingesting files                                                *)
(***************************************************************************)
\* handleFilesSelected for one file: parseStatement, then the two setState
\* updaters; parseStatement does not throw, so the catch branch is not taken
handleFilesSelected(f) ==
  LET parsed == parseStatement(f, now, engine)
  IN  /\ statements' = Append(statements, parsed)
      /\ selectedFiles' = selectedFiles \cup {parsed.filename}
      /\ error' = ""

(***************************************************************************)
(* Specification of the statement parser: a document is drawn, then         *)
(* ingested by the application and parsed by UOBParser                      *)
(***************************************************************************)
InitParse ==
  /\ now \in Clock /\ engine \in Engines /\ idbFault = "none"
  /\ \E f \in Files : file = Some(f)
  /\ uobParsed = <<>> /\ uobReparsed = <<>>
  /\ IdleApp /\ IdleRule /\ IdleRegistry

IngestFile ==
  /\ file # <<>> /\ statements = <<>>
  /\ handleFilesSelected(file[1])
  /\ UNCHANGED <<envVars, parseVars, ruleVars, registryVars, isHydrated, embedVars, idbVars,
                 similarTxModal, ret, budget, tasks>>

\* detectStatementType, extractPeriod and parseTransactions of uobParser on
\* a document, at the time clock
UOBRun(doc, clock) ==
  LET type   == detectStatementType("uob", doc.firstPage)
      period == extractPeriod(doc, clock)
  IN  [type |-> type, period |-> period,
       transactions |-> parseTransactions(doc.matches, type, period, engine)]

UOBParse ==
  /\ file # <<>> /\ uobParsed = <<>>
  /\ uobParsed' = Some(UOBRun(file[1], now))
  /\ UNCHANGED <<envVars, file, uobReparsed, ruleVars, registryVars, appVars>>

\* time passes between two runs
Tick ==
  /\ uobParsed # <<>> /\ uobReparsed = <<>>
  /\ \E later \in Clock :
       /\ <<later.y, later.m, later.d>> # <<now.y, now.m, now.d>>
       /\ \/ later.y > now.y
          \/ later.y = now.y /\ later.m > now.m
          \/ later.y = now.y /\ later.m = now.m /\ later.d > now.d
       /\ now' = later
  /\ UNCHANGED <<engine, idbFault, parseVars, ruleVars, registryVars, appVars>>

\* the same page texts parsed a second time
UOBParseAgain ==
  /\ file # <<>> /\ uobParsed # <<>> /\ uobReparsed = <<>>
  /\ uobReparsed' = Some(UOBRun(file[1], now))
  /\ UNCHANGED <<envVars, file, uobParsed, ruleVars, registryVars, appVars>>

NextParse == IngestFile \/ UOBParse \/ Tick \/ UOBParseAgain
SpecParse == InitParse /\ [][NextParse]_vars

(***************************************************************************)
(* Specification of the rule engine: a description and a vendor are drawn  *)
(* and categorizeTransaction is called on them                             *)
(***************************************************************************)
RuleDescriptions ==
  {"NTUC FAIRPRICE TAMPINES", "NETFLIX.COM SINGAPORE", "TRANSFER TO INVESTMENT ACCOUNT",
   "GRAB* RIDE 12345", "GRAB* RIDE 67890", "GRABFOOD ORDER", "SHOPEE SINGAPORE",
   "Misc Debit", "Interest Credit", "Bonus Interest", "SALARY ACME PTE LTD",
   "PAYNOW-FAST PAYNOW OTHR JOHN TAN", "Inward Credit-FAST", "FUNDS TRANSFER",
   "TRANSFER TO SAVINGS", "INTERACTIVE BROKERS", "ENDOWUS", "STARBUCKS VIVOCITY",
   "MCDONALD'S", "SP SERVICES", "SINGTEL", "SPOTIFY", "AIA SINGAPORE", "GUARDIAN",
   "SINGAPORE AIRLINES", "AGODA", "UNIQLO", "GOLDEN VILLAGE", "BUS/MRT", "CHEERS",
   "COLD STORAGE", "IRAS", "ATM Cash Withdrawal", "Cash Deposit", "NETS DEBIT",
   "PAYMT THRU E-BANK", "UOB ONE CARD", "TAN AH KOW", "", "xx",
   "FUNDS TRANSFER TO TIGER BROKERS", "GIRO CPF CONTRIBUTION"}

RuleVendors == {Undefined, Some(""), Some("John Tan"), Some("NTUC"), Some("Tiger Brokers")}

InitRules ==
  /\ \E d \in RuleDescriptions, v \in RuleVendors :
       ruleArg = Some([description |-> d, vendor |-> v])
  /\ ruleRet = <<>>
  /\ IdleEnv /\ IdleParse /\ IdleRegistry /\ IdleApp

CallCategorizeTransaction ==
  /\ ruleArg # <<>> /\ ruleRet = <<>>
  /\ ruleRet' = Some(categorizeTransaction(ruleArg[1].description, ruleArg[1].vendor))
  /\ UNCHANGED <<envVars, parseVars, ruleArg, registryVars, appVars>>

NextRules == CallCategorizeTransaction
SpecRules == InitRules /\ [][NextRules]_vars

(***************************************************************************)
(* Specification of the parser registry: parsers are registered on top of  *)
(* the constructor's uobParser, and findParser is called on first pages    *)
(***************************************************************************)
\* other BankParser implementations, by bankId and reported confidence
OtherParsers ==
  {[bankId |-> b, impl |-> "const", conf |-> c] :
     b \in {"dbs", "ocbc"}, c \in {0, 49, 50, 90, 95, 100}}

FirstPages == BankHeaders \cup CardHeaders \cup
  {"One Account statement, Singapore", "uob card", "", "www.uobgroup.com"}

InitRegistry ==
  /\ parsers = <<uobParser>>
  /\ firstPageText = "" /\ found = <<>>
  /\ IdleEnv /\ IdleParse /\ IdleRule /\ IdleApp

Register ==
  /\ \E p \in OtherParsers \cup {uobParser} :
       /\ Len(register(parsers, p)) <= MaxParsers
       /\ parsers' = register(parsers, p)
  /\ found' = <<>>
  /\ UNCHANGED <<envVars, parseVars, ruleVars, firstPageText, appVars>>

CallFindParser ==
  /\ \E t \in FirstPages :
       /\ firstPageText' = t
       /\ found' = Some(findParser(parsers, t))
  /\ UNCHANGED <<envVars, parseVars, ruleVars, parsers, appVars>>

NextRegistry == Register \/ CallFindParser
SpecRegistry == InitRegistry /\ [][NextRegistry]_vars

(***************************************************************************)
(* The application: App.tsx, TransactionTable.tsx and embeddings.ts        *)
(***************************************************************************)
MaxActions == 1
MaxStatements == 2

AppUnit(d, amount) ==
  [BaseUnit EXCEPT !.description = d, !.txAmount = amount, !.balance = 0]

\* two credit-card statements; the second repeats a line of the first and
\* repeats it once more
AppFiles ==
  {[name |-> "jan.pdf", firstPage |-> "UOB ONE CARD Credit Card(s) Statement",
    periodMatch |-> Some(JulyPeriod), stmtDateMatch |-> Undefined,
    matches |-> Stamp(<<AppUnit("GRAB* RIDE 12345", 1250), AppUnit("GRAB* RIDE 67890", 980),
                        AppUnit("NETFLIX.COM SINGAPORE", 1998)>>)],
   [name |-> "feb.pdf", firstPage |-> "UOB ONE CARD Credit Card(s) Statement",
    periodMatch |-> Some(JulyPeriod), stmtDateMatch |-> Undefined,
    matches |-> Stamp(<<AppUnit("GRAB* RIDE 12345", 1250), AppUnit("GRAB* RIDE 12345", 1250),
                        AppUnit("MYSTERY SHOP", 500)>>)]}

FileNamed(n) == CHOOSE f \in AppFiles : f.name = n
Parsed(n) == parseStatement(FileNamed(n), MkDate(2025, 0, 1), "strict")

\* what an earlier session may have left in IndexedDB
PersistedStatements ==
  {<<>>,
   <<Parsed("jan.pdf"), Parsed("feb.pdf")>>,
   <<[Parsed("jan.pdf") EXCEPT !.transactions[1].hidden = TRUE], Parsed("feb.pdf")>>}
PersistedMappings ==
  {Undefined, Some(<<[key |-> "GRAB* RIDE 12345", value |-> "Food & Dining"]>>)}
PersistedEmbeddings ==
  {EmptyCache,
   [k \in {"GRAB* RIDE 12345", "GRAB* RIDE 67890"} |-> getEmbedding(k)]}

\* the categories the editor offers
ALL_CATEGORIES ==
  <<"Income", "Investments", "Savings", "Credit Card Payment", "Food & Dining",
    "Groceries", "Transport", "Shopping", "Subscriptions", "Entertainment", "Bills",
    "Tax", "Rent", "Healthcare", "Insurance", "Education", "P2P Transfers", "Transfers",
    "Other">>

\* the categories the user picks in this model
PickedCategories == {"Food & Dining", "Other"}
ProbeDescriptions == {"GRAB* RIDE 12345", "GRAB* RIDE 67890", "MYSTERY SHOP"}
ProbeVendors == {Undefined, Some("John Tan")}

\* the module state a call of embeddings.ts reads
St ==
  [extractor |-> extractor, categoryEmbeddings |-> categoryEmbeddings,
   userDefinedMappings |-> userDefinedMappings,
   userMappingEmbeddings |-> userMappingEmbeddings,
   cache |-> transactionEmbeddingCache, idbMappings |-> idbMappings,
   idbFault |-> idbFault]

\* saveTxEmbedding for every key a call added to the cache; nothing is
\* stored when the store fails
SaveTxEmbeddings(idb, before, after) ==
  IF idbFault # "none" THEN idb
  ELSE [k \in DOMAIN idb \cup (DOMAIN after \ DOMAIN before) |->
          IF k \in DOMAIN after \ DOMAIN before THEN after[k] ELSE idb[k]]

RECURSIVE FlatMap(_)
FlatMap(stmts) ==
  IF stmts = <<>> THEN <<>> ELSE Head(stmts).transactions \o FlatMap(Tail(stmts))

filteredStatements == SelectSeq(statements, LAMBDA s : s.filename \in selectedFiles)
allTransactions == FlatMap(filteredStatements)

\* transactions.findIndex(same date.getTime(), description, amount): 0-based,
\* -1 when nothing matches (NaN equals nothing)
originalIndex(transactions, tx) ==
  LET hits == {i \in 1..Len(transactions) :
                 /\ tx.date.valid /\ transactions[i].date = tx.date
                 /\ transactions[i].description = tx.description
                 /\ transactions[i].amount = tx.amount}
  IN  IF hits = {} THEN -1 ELSE (CHOOSE i \in hits : \A j \in hits : i <= j) - 1

ApplyEdit(tx, edit) ==
  IF edit.kind = "category"
    THEN [tx EXCEPT !.category = edit.category, !.categorySource = "user"]
    ELSE [tx EXCEPT !.hidden = ~@]

RECURSIVE MapStatements(_, _, _, _, _)
\* prev.map(...) of handleCategoryUpdate and handleToggleHidden from statement
\* k on; currentIndex is advanced only past a statement that did not match
MapStatements(prev, k, currentIndex, txIndex, edit) ==
  IF k > Len(prev) THEN <<>>
  ELSE
    LET stmt    == prev[k]
        txCount == Len(stmt.transactions)
    IN  IF txIndex >= currentIndex /\ txIndex < currentIndex + txCount
          THEN <<[stmt EXCEPT !.transactions[txIndex - currentIndex + 1] = ApplyEdit(@, edit)]>>
               \o MapStatements(prev, k + 1, currentIndex, txIndex, edit)
          ELSE <<stmt>> \o MapStatements(prev, k + 1, currentIndex + txCount, txIndex, edit)

handleCategoryUpdate(prev, txIndex, newCategory) ==
  MapStatements(prev, 1, 0, txIndex, [kind |-> "category", category |-> newCategory])

handleToggleHidden(prev, txIndex) ==
  MapStatements(prev, 1, 0, txIndex, [kind |-> "hidden", category |-> ""])

InitApp ==
  /\ IdleEnv /\ IdleParse /\ IdleRule /\ IdleRegistry
  /\ statements = <<>> /\ selectedFiles = {} /\ error = "" /\ isHydrated = FALSE
  /\ IdleEmbed
  /\ idbMappings \in PersistedMappings
  /\ idbEmbeddings \in PersistedEmbeddings
  /\ idbStatements \in PersistedStatements
  /\ similarTxModal = Undefined /\ ret = NoCall
  /\ budget = MaxActions /\ tasks = NoTasks

otherVars == <<envVars, parseVars, ruleVars, registryVars, tasks>>

(* ---- initializeEmbeddings, one action per await ---- *)
\* the mount effect calls initializeEmbeddings: initPromise is set
InitializeEmbeddings ==
  /\ initStage = "idle" /\ ~extractor
  /\ initStage' = "downloading"
  /\ ret' = NoCall
  /\ UNCHANGED <<otherVars, statements, selectedFiles, error, isHydrated, extractor,
                 categoryEmbeddings, userDefinedMappings, userMappingEmbeddings,
                 transactionEmbeddingCache, idbVars, similarTxModal, budget>>

\* pipeline(...) resolves
PipelineLoaded ==
  /\ initStage = "downloading"
  /\ extractor' = TRUE
  /\ initStage' = "loadingMappings"
  /\ ret' = NoCall
  /\ UNCHANGED <<otherVars, statements, selectedFiles, error, isHydrated,
                 categoryEmbeddings, userDefinedMappings, userMappingEmbeddings,
                 transactionEmbeddingCache, idbVars, similarTxModal, budget>>

\* pipeline(...) rejects: the finally block runs and the promise rejects
PipelineFailed ==
  /\ initStage = "downloading"
  /\ initStage' = "failed"
  /\ ret' = NoCall
  /\ UNCHANGED <<otherVars, statements, selectedFiles, error, isHydrated, extractor,
                 categoryEmbeddings, userDefinedMappings, userMappingEmbeddings,
                 transactionEmbeddingCache, idbVars, similarTxModal, budget>>

RECURSIVE EmbedMappings(_, _, _)
\* the for-loop of loadUserMappings over the loaded map from entry i on
EmbedMappings(mappings, i, userEmbeddings) ==
  IF i > Len(mappings) THEN userEmbeddings
  ELSE EmbedMappings(mappings, i + 1,
                     MapSet(userEmbeddings, mappings[i].key,
                            [category |-> mappings[i].value,
                             embedding |-> getEmbedding(mappings[i].key)]))

\* loadUserMappings resolves; a failure of the store is caught inside it
LoadUserMappings ==
  /\ initStage = "loadingMappings"
  /\ IF idbFault = "none" /\ idbMappings # Undefined
       THEN /\ userDefinedMappings' = idbMappings[1]
            /\ userMappingEmbeddings' = EmbedMappings(idbMappings[1], 1, userMappingEmbeddings)
       ELSE UNCHANGED <<userDefinedMappings, userMappingEmbeddings>>
  /\ initStage' = "loadingCache"
  /\ ret' = NoCall
  /\ UNCHANGED <<otherVars, statements, selectedFiles, error, isHydrated, extractor,
                 categoryEmbeddings, transactionEmbeddingCache, idbVars, similarTxModal,
                 budget>>

\* loadCachedEmbeddings settles. It resolves with the stored vectors loaded,
\* or with 0 when opening the store failed (caught), and then
\* categoryEmbeddings = new Map(). The promise of the cursor request is
\* returned without await, so its rejection is not caught: it rejects
\* loadCachedEmbeddings and, through the finally block, initializeEmbeddings
LoadCachedEmbeddings ==
  /\ initStage = "loadingCache"
  /\ IF idbFault = "request"
       THEN /\ initStage' = "failed"
            /\ UNCHANGED <<transactionEmbeddingCache, categoryEmbeddings>>
       ELSE /\ transactionEmbeddingCache' =
                 IF idbFault = "open" THEN transactionEmbeddingCache
                 ELSE [k \in DOMAIN transactionEmbeddingCache \cup DOMAIN idbEmbeddings |->
                         IF k \in DOMAIN idbEmbeddings THEN idbEmbeddings[k]
                         ELSE transactionEmbeddingCache[k]]
            /\ categoryEmbeddings' = Some(<<>>)
            /\ initStage' = "computing"
  /\ ret' = NoCall
  /\ UNCHANGED <<otherVars, statements, selectedFiles, error, isHydrated, extractor,
                 userDefinedMappings, userMappingEmbeddings, idbVars, similarTxModal,
                 budget>>

\* one iteration of the loop over the categories
ComputeCategoryEmbedding ==
  /\ initStage = "computing"
  /\ LET category == CATEGORIES[Len(categoryEmbeddings[1]) + 1]
         table    == MapSet(categoryEmbeddings[1], category,
                            getEmbedding(ExemplarText(category)))
     IN  /\ categoryEmbeddings' = Some(table)
         /\ initStage' = IF Len(table) = Len(CATEGORIES) THEN "ready" ELSE "computing"
  /\ ret' = NoCall
  /\ UNCHANGED <<otherVars, statements, selectedFiles, error, isHydrated, extractor,
                 userDefinedMappings, userMappingEmbeddings, transactionEmbeddingCache,
                 idbVars, similarTxModal, budget>>

(* ---- App.tsx effects and handlers ---- *)
\* hydrate(): loadPersistedStatements resolves
Hydrate ==
  /\ ~isHydrated
  /\ isHydrated' = TRUE
  /\ IF Len(idbStatements) > 0
       THEN /\ statements' = idbStatements
            /\ selectedFiles' = {idbStatements[i].filename : i \in 1..Len(idbStatements)}
       ELSE UNCHANGED <<statements, selectedFiles>>
  /\ ret' = NoCall
  /\ UNCHANGED <<otherVars, error, embedVars, idbVars, similarTxModal, budget>>

UserMayAct == similarTxModal = Undefined /\ budget > 0

HandleFilesSelected ==
  /\ UserMayAct /\ Len(statements) < MaxStatements
  /\ \E f \in AppFiles : handleFilesSelected(f)
  /\ budget' = budget - 1
  /\ ret' = NoCall
  /\ UNCHANGED <<otherVars, isHydrated, embedVars, idbVars, similarTxModal>>

HandleToggleFile ==
  /\ UserMayAct
  /\ \E i \in 1..Len(statements) :
       LET filename == statements[i].filename
       IN  selectedFiles' = IF filename \in selectedFiles
                              THEN selectedFiles \ {filename}
                              ELSE selectedFiles \cup {filename}
  /\ budget' = budget - 1
  /\ ret' = NoCall
  /\ UNCHANGED <<otherVars, statements, error, isHydrated, embedVars, idbVars,
                 similarTxModal>>

\* the eye button of the row showing allTransactions[row]
ToggleHidden(row) ==
  /\ UserMayAct
  /\ statements' = handleToggleHidden(statements,
                                      originalIndex(allTransactions, allTransactions[row]))
  /\ budget' = budget - 1
  /\ ret' = NoCall
  /\ UNCHANGED <<otherVars, selectedFiles, error, isHydrated, embedVars, idbVars,
                 similarTxModal>>

HandleToggleHidden == \E row \in 1..Len(allTransactions) : ToggleHidden(row)

\* the precompute effect, one iteration that computes: the first transaction
\* of the statements whose key is not cached
PrecomputeStep ==
  /\ initStage = "ready" /\ extractor
  /\ LET txs     == FlatMap(statements)
         missing == {i \in 1..Len(txs) :
                       getTxCacheKey(txs[i].description, txs[i].vendor)
                         \notin DOMAIN transactionEmbeddingCache}
     IN  /\ missing # {}
         /\ LET tx == txs[CHOOSE i \in missing : \A j \in missing : i <= j]
                r  == getTransactionEmbedding(tx.description, tx.vendor, St)
            IN  /\ transactionEmbeddingCache' = r.cache
                /\ idbEmbeddings' = SaveTxEmbeddings(idbEmbeddings,
                                                     transactionEmbeddingCache, r.cache)
  /\ ret' = NoCall
  /\ UNCHANGED <<otherVars, statements, selectedFiles, error, isHydrated, extractor,
                 categoryEmbeddings, initStage, userDefinedMappings, userMappingEmbeddings,
                 idbMappings, idbStatements, similarTxModal, budget>>

(* ---- TransactionTable.tsx ---- *)
\* the similarity search of the save handler on the module state st
SaveSearch(tx, transactions, st) ==
  LET target == getTransactionEmbedding(tx.description, tx.vendor, st)
      fast   == findSimilarTransactionsFast(tx.description, tx.vendor, transactions,
                                            SimilarityThreshold, target.cache)
  IN  IF Len(fast) = 0 /\ Cardinality(DOMAIN target.cache) * 2 < Len(transactions)
        THEN findSimilarTransactions(tx.description, tx.vendor, transactions,
                                     SimilarityThreshold, [st EXCEPT !.cache = target.cache])
        ELSE [result |-> fast, cache |-> target.cache, calls |-> target.calls]

\* the Save button of the category editor of the row showing
\* allTransactions[row], with newCategory picked
SaveCategory(row, newCategory) ==
  LET tx           == allTransactions[row]
      transactions == allTransactions
      learned      == learnUserCategory(tx.description, newCategory, St)
      similar      == SaveSearch(tx, transactions, learned)
  IN  /\ UserMayAct
      /\ newCategory # tx.category
      /\ IF isModelReady(St)
           THEN /\ userDefinedMappings' = learned.userDefinedMappings
                /\ userMappingEmbeddings' = learned.userMappingEmbeddings
                /\ idbMappings' = learned.idbMappings
                /\ transactionEmbeddingCache' = similar.cache
                /\ idbEmbeddings' = SaveTxEmbeddings(idbEmbeddings,
                                                     transactionEmbeddingCache, similar.cache)
                /\ similarTxModal' =
                     IF Len(similar.result) > 0
                       THEN Some([sourceDescription |-> tx.description,
                                  sourceVendor      |-> tx.vendor,
                                  newCategory       |-> newCategory,
                                  similarIndices    |-> similar.result,
                                  selectedIndices   |->
                                    [k \in 1..Len(similar.result) |-> similar.result[k].index]])
                       ELSE Undefined
           ELSE UNCHANGED <<userDefinedMappings, userMappingEmbeddings, idbMappings,
                            transactionEmbeddingCache, idbEmbeddings, similarTxModal>>
      /\ statements' = handleCategoryUpdate(statements, originalIndex(transactions, tx),
                                            newCategory)
      /\ budget' = budget - 1
      /\ ret' = NoCall
      /\ UNCHANGED <<otherVars, selectedFiles, error, isHydrated, extractor,
                     categoryEmbeddings, initStage, idbStatements>>

HandleSaveCategory ==
  \E row \in 1..Len(allTransactions), newCategory \in PickedCategories :
    SaveCategory(row, newCategory)

\* a checkbox of the dialog: selectedIndices is a Set, kept in insertion order
ModalToggle(index) ==
  /\ similarTxModal # Undefined
  /\ \E k \in 1..Len(similarTxModal[1].similarIndices) :
       similarTxModal[1].similarIndices[k].index = index
  /\ LET selected == similarTxModal[1].selectedIndices
     IN  similarTxModal' =
           Some([similarTxModal[1] EXCEPT !.selectedIndices =
                   IF \E k \in 1..Len(selected) : selected[k] = index
                     THEN SelectSeq(selected, LAMBDA x : x # index)
                     ELSE Append(selected, index)])
  /\ ret' = NoCall
  /\ UNCHANGED <<otherVars, statements, selectedFiles, error, isHydrated, embedVars,
                 idbVars, budget>>

HandleModalToggle == \E index \in 0..(Len(allTransactions) - 1) : ModalToggle(index)

\* the X button of the dialog
ModalClose ==
  /\ similarTxModal # Undefined
  /\ similarTxModal' = Undefined
  /\ ret' = NoCall
  /\ UNCHANGED <<otherVars, statements, selectedFiles, error, isHydrated, embedVars,
                 idbVars, budget>>

\* the Skip button of the dialog
ModalSkip ==
  /\ similarTxModal # Undefined
  /\ similarTxModal' = Undefined
  /\ ret' = NoCall
  /\ UNCHANGED <<otherVars, statements, selectedFiles, error, isHydrated, embedVars,
                 idbVars, budget>>

RECURSIVE ApplyLoop(_, _, _, _, _, _)
\* the for-loop of the Apply button over the selected indices from the k-th on
ApplyLoop(selected, k, transactions, newCategory, st, stmts) ==
  IF k > Len(selected) THEN [st |-> st, statements |-> stmts]
  ELSE ApplyLoop(selected, k + 1, transactions, newCategory,
                 learnUserCategory(transactions[selected[k] + 1].description, newCategory, st),
                 handleCategoryUpdate(stmts, selected[k], newCategory))

\* the Apply button of the dialog, enabled when something is selected
ModalApply ==
  /\ similarTxModal # Undefined
  /\ Len(similarTxModal[1].selectedIndices) > 0
  /\ LET done == ApplyLoop(similarTxModal[1].selectedIndices, 1, allTransactions,
                           similarTxModal[1].newCategory, St, statements)
     IN  /\ statements' = done.statements
         /\ userDefinedMappings' = done.st.userDefinedMappings
         /\ userMappingEmbeddings' = done.st.userMappingEmbeddings
         /\ idbMappings' = done.st.idbMappings
  /\ similarTxModal' = Undefined
  /\ ret' = NoCall
  /\ UNCHANGED <<otherVars, selectedFiles, error, isHydrated, extractor, categoryEmbeddings,
                 initStage, transactionEmbeddingCache, idbEmbeddings, idbStatements, budget>>

(* ---- calls of the exported functions of embeddings.ts ---- *)
CallCategorizeWithEmbeddings ==
  /\ UserMayAct
  /\ \E d \in ProbeDescriptions, v \in ProbeVendors :
       LET r == categorizeWithEmbeddings(d, v, St)
       IN  /\ transactionEmbeddingCache' = r.cache
           /\ idbEmbeddings' = SaveTxEmbeddings(idbEmbeddings, transactionEmbeddingCache,
                                                r.cache)
           /\ ret' = [NoCall EXCEPT !.op = "categorizeWithEmbeddings", !.description = d,
                                    !.vendor = v, !.result = r.result, !.calls = r.calls,
                                    !.targetCached =
                                       getTxCacheKey(d, v) \in DOMAIN transactionEmbeddingCache]
           /\ budget' = IF r.cache = transactionEmbeddingCache THEN budget ELSE budget - 1
  /\ UNCHANGED <<otherVars, statements, selectedFiles, error, isHydrated, extractor,
                 categoryEmbeddings, initStage, userDefinedMappings, userMappingEmbeddings,
                 idbMappings, idbStatements, similarTxModal>>

CallCategorizeWithEmbeddingsFast ==
  /\ UserMayAct
  /\ \E d \in ProbeDescriptions, v \in ProbeVendors :
       LET r == categorizeWithEmbeddingsFast(d, v, St)
       IN  /\ transactionEmbeddingCache' = r.cache
           /\ idbEmbeddings' = SaveTxEmbeddings(idbEmbeddings, transactionEmbeddingCache,
                                                r.cache)
           /\ ret' = [NoCall EXCEPT !.op = "categorizeWithEmbeddingsFast",
                                    !.description = d, !.vendor = v, !.result = r.result,
                                    !.calls = r.calls,
                                    !.targetCached =
                                       getTxCacheKey(d, v) \in DOMAIN transactionEmbeddingCache]
  /\ UNCHANGED <<otherVars, statements, selectedFiles, error, isHydrated, extractor,
                 categoryEmbeddings, initStage, userDefinedMappings, userMappingEmbeddings,
                 idbMappings, idbStatements, similarTxModal, budget>>

Next ==
  \/ InitializeEmbeddings \/ PipelineLoaded \/ PipelineFailed
  \/ LoadUserMappings \/ LoadCachedEmbeddings \/ ComputeCategoryEmbedding
  \/ Hydrate \/ PrecomputeStep
  \/ HandleFilesSelected \/ HandleToggleFile \/ HandleToggleHidden
  \/ HandleSaveCategory \/ HandleModalToggle \/ ModalClose \/ ModalSkip \/ ModalApply
  \/ CallCategorizeWithEmbeddings \/ CallCategorizeWithEmbeddingsFast

Spec == InitApp /\ [][Next]_vars

(***************************************************************************)
(* Properties                                                              *)
(***************************************************************************)
\* the lists of bank-account transactions produced from the drawn document,
\* each with the document it came from
BankLists ==
     {[doc |-> file[1], txs |-> uobParsed[1].transactions] :
        x \in {1} \cap {n \in {1} : uobParsed # <<>> /\ uobParsed[1].type = "bank"}}
  \cup
     {[doc |-> file[1], txs |-> statements[i].transactions] :
        i \in {n \in 1..Len(statements) : statements[n].type = "bank"}}

\* every list of transactions produced from the drawn document
ParsedLists ==
     {[doc |-> file[1], period |-> uobParsed[1].period,
       txs |-> uobParsed[1].transactions] :
        x \in {1} \cap {n \in {1} : uobParsed # <<>>}}
  \cup
     {[doc |-> file[1],
       period |-> [start |-> statements[i].periodStart, end |-> statements[i].periodEnd],
       txs |-> statements[i].transactions] : i \in 1..Len(statements)}

\* the lines of doc before line l that pass the scan loop's denylist
EntriesBefore(doc, l) ==
  {k \in 1..(l - 1) : ~IsBoilerplate(Trim(doc.matches[k].description))}

Max(S) == CHOOSE n \in S : \A k \in S : k <= n

\* C1 as written: every emitted bank transaction after the first has amount
\* equal to its balance minus the balance of the transaction emitted before it.
C1_AmountFromEmitted ==
  \A L \in BankLists : \A i \in 2..Len(L.txs) :
    L.txs[i].amount = L.txs[i].balance[1] - L.txs[i - 1].balance[1]

\* C1 amended: every emitted bank transaction that is not the first entry of
\* the document has amount equal to its balance minus the balance of the
\* entry printed immediately before it, emitted or not.
C1_AmountFromPrecedingEntry ==
  \A L \in BankLists : \A i \in 1..Len(L.txs) :
    LET before == EntriesBefore(L.doc, L.txs[i].rawText)
    IN  before # {} =>
          L.txs[i].amount = L.txs[i].balance[1] - L.doc.matches[Max(before)].balance

\* a small interest entry was dropped between two emitted entries, and the
\* later one carries the difference to the dropped entry's balance
C1_Witness ==
  \E L \in BankLists : \E i \in 2..Len(L.txs) :
    /\ L.txs[i].rawText > L.txs[i - 1].rawText + 1
    /\ L.txs[i].amount # 0
    /\ L.txs[i].balance[1] = L.txs[i - 1].balance[1]

\* C2: findParser returns the parser of the highest canParse score when that
\* score is at least 0.5 and null otherwise; a text containing "UNITED
\* OVERSEAS BANK" selects a parser, the UOB one unless another scores as high.
C2_FindParser ==
  found # <<>> =>
    LET r      == found[1]
        score(p) == canParse(p, firstPageText)
        all    == {parsers[i] : i \in 1..Len(parsers)}
    IN  /\ r # NoParser =>
             /\ r \in all
             /\ score(r) >= ConfidenceThreshold
             /\ \A p \in all : score(p) <= score(r)
        /\ r = NoParser => \A p \in all : score(p) < ConfidenceThreshold
        /\ (Includes(firstPageText, "UNITED OVERSEAS BANK") /\ uobParser \in all) =>
             /\ r # NoParser
             /\ score(r) >= ConfidenceThreshold
             /\ (\A p \in all \ {uobParser} : score(p) < score(uobParser)) => r = uobParser

\* the UOB parser was chosen over a later-registered parser scoring less,
\* on a page containing "UNITED OVERSEAS BANK"
C2_Witness ==
  /\ found # <<>> /\ found[1] = uobParser
  /\ Includes(firstPageText, "UNITED OVERSEAS BANK")
  /\ Len(parsers) = 2 /\ canParse(parsers[2], firstPageText) >= ConfidenceThreshold

\* null was returned with a parser registered that scores just below 0.5
C2_WitnessNull ==
  /\ found # <<>> /\ found[1] = NoParser
  /\ \E i \in 1..Len(parsers) : canParse(parsers[i], firstPageText) = ConfidenceThreshold - 1

\* C3: a file on whose first page no registered parser reaches 0.5 yields no
\* statement (ingesting it ends in an unsupported-format error).
C3_NoStatementWithoutParser ==
  (file # <<>> /\ findParser(parsers, file[1].firstPage) = NoParser) =>
    /\ \A i \in 1..Len(statements) : statements[i].filename # file[1].name
    /\ statements = <<>>

\* the year the rule assigns to a token of month mon in the period
RuleYear(mon, period) ==
  IF period.start.y < period.end.y /\ mon >= period.start.m
    THEN period.start.y ELSE period.end.y

C5_RuleExamples ==
  (ruleRet # <<>> /\ ruleArg[1].vendor = Undefined) =>
    /\ ruleArg[1].description = "NTUC FAIRPRICE TAMPINES" => ruleRet[1] = "Groceries"
    /\ ruleArg[1].description = "NETFLIX.COM SINGAPORE" => ruleRet[1] = "Subscriptions"
    /\ ruleArg[1].description = "TRANSFER TO INVESTMENT ACCOUNT" => ruleRet[1] = "Investments"

\* a call of one of the two classification functions was the last step
Classified == ret.op \in {"categorizeWithEmbeddings", "categorizeWithEmbeddingsFast"}

\* C6 as written: classifying a description that is a key of the correction
\* map returns the stored category with confidence 1.0 and embeds nothing.
C6_ExactMatchAlways ==
  (Classified /\ MapHas(userDefinedMappings, ret.description)) =>
    /\ ret.result = Some([category   |-> MapGet(userDefinedMappings, ret.description),
                          confidence |-> 100])
    /\ ret.calls = 0

\* C6 amended: while the classifier is ready (isModelReady()), classifying a
\* description that is a key of the correction map returns the stored
\* category with confidence 1.0 and embeds nothing, with or without a vendor.
C6_ExactMatchWhenReady ==
  (Classified /\ isModelReady(St) /\ MapHas(userDefinedMappings, ret.description)) =>
    /\ ret.result = Some([category   |-> MapGet(userDefinedMappings, ret.description),
                          confidence |-> 100])
    /\ ret.calls = 0

\* categorizeWithEmbeddings answered from the correction map for a pair of
\* description and vendor whose vector is not cached
C6_Witness ==
  /\ ret.op = "categorizeWithEmbeddings" /\ isModelReady(St)
  /\ MapHas(userDefinedMappings, ret.description)
  /\ ret.vendor # Undefined /\ ~ret.targetCached
  /\ ret.result # Undefined /\ ret.result[1].confidence = 100

\* the scores the classifier compares for the vector e
Scores(e) ==
       {[category |-> userMappingEmbeddings[i].value.category,
         score    |-> cosineSimilarity(e, userMappingEmbeddings[i].value.embedding)
                        + USER_MAPPING_BOOST] : i \in 1..Len(userMappingEmbeddings)}
  \cup {[category |-> categoryEmbeddings[1][i].key,
         score    |-> cosineSimilarity(e, categoryEmbeddings[1][i].value)] :
          i \in 1..Len(categoryEmbeddings[1])}

ExpectedSimilar(index, transactions, cache) ==
  LET key(i) == getTxCacheKey(transactions[i + 1].description, transactions[i + 1].vendor)
  IN  {i \in 0..(Len(transactions) - 1) :
         /\ i # index /\ ~transactions[i + 1].hidden /\ key(i) \in DOMAIN cache
         /\ cosineSimilarity(cache[key(index)], cache[key(i)]) >= SimilarityThreshold}

IsExactDescending(results, expected) ==
  /\ {results[k].index : k \in 1..Len(results)} = expected
  /\ Len(results) = Cardinality(expected)
  /\ \A k \in 1..(Len(results) - 1) : results[k].similarity >= results[k + 1].similarity

\* C8: for a transaction T with a cached vector the search returns exactly
\* the indices of the other non-hidden transactions whose cached vector has
\* similarity >= 0.85 with T's, each once, most similar first.
C8_SearchReturnsAllSimilar ==
  \A index \in 0..(Len(allTransactions) - 1) :
    LET tx == allTransactions[index + 1]
    IN  getTxCacheKey(tx.description, tx.vendor) \in DOMAIN transactionEmbeddingCache =>
          /\ IsExactDescending(
               findSimilarTransactionsFast(tx.description, tx.vendor, allTransactions,
                                           SimilarityThreshold, transactionEmbeddingCache),
               ExpectedSimilar(index, allTransactions, transactionEmbeddingCache))
          /\ extractor =>
               LET r == findSimilarTransactions(tx.description, tx.vendor, allTransactions,
                                                SimilarityThreshold, St)
               IN  IsExactDescending(r.result, ExpectedSimilar(index, allTransactions, r.cache))

SearchThresholds == {-100, SimilarityThreshold}

\* C9: whatever the target, the threshold and the cache, no index returned by
\* findSimilarTransactionsFast or findSimilarTransactions is that of a hidden
\* transaction.
C9_HiddenNeverCandidate ==
  \A index \in 0..(Len(allTransactions) - 1), threshold \in SearchThresholds :
    LET tx   == allTransactions[index + 1]
        fast == findSimilarTransactionsFast(tx.description, tx.vendor, allTransactions,
                                            threshold, transactionEmbeddingCache)
        full == findSimilarTransactions(tx.description, tx.vendor, allTransactions,
                                        threshold, St).result
    IN  /\ \A k \in 1..Len(fast) : ~allTransactions[fast[k].index + 1].hidden
        /\ \A k \in 1..Len(full) : ~allTransactions[full[k].index + 1].hidden

\* the dialog is open on candidates found by the save handler, and a hidden
\* transaction as similar to the corrected one is not among them
C9_Witness ==
  /\ similarTxModal # Undefined
  /\ Len(similarTxModal[1].similarIndices) > 0
  /\ \E i \in 1..Len(allTransactions) :
       LET key == getTxCacheKey(allTransactions[i].description, allTransactions[i].vendor)
           src == getTxCacheKey(similarTxModal[1].sourceDescription,
                                similarTxModal[1].sourceVendor)
       IN  /\ allTransactions[i].hidden
           /\ allTransactions[i].description # similarTxModal[1].sourceDescription
           /\ key \in DOMAIN transactionEmbeddingCache
           /\ src \in DOMAIN transactionEmbeddingCache
           /\ cosineSimilarity(transactionEmbeddingCache[src],
                               transactionEmbeddingCache[key]) >= SimilarityThreshold
           /\ \A k \in 1..Len(similarTxModal[1].similarIndices) :
                similarTxModal[1].similarIndices[k].index # i - 1

RECURSIVE PositionsFrom(_)
\* where the transactions of the table's list sit: <<statement, place>> for
\* each index of allTransactions, from statement s on
PositionsFrom(s) ==
  IF s > Len(statements) THEN <<>>
  ELSE (IF statements[s].filename \in selectedFiles
          THEN [i \in 1..Len(statements[s].transactions) |-> <<s, i>>]
          ELSE <<>>) \o PositionsFrom(s + 1)

Positions == PositionsFrom(1)

\* a step changes the category and categorySource of no transaction outside keep
OnlyRelabelled(keep) ==
  /\ Len(statements') = Len(statements)
  /\ \A s \in 1..Len(statements) :
       /\ Len(statements'[s].transactions) = Len(statements[s].transactions)
       /\ \A i \in 1..Len(statements[s].transactions) :
            <<s, i>> \notin keep =>
              /\ statements'[s].transactions[i].category
                   = statements[s].transactions[i].category
              /\ statements'[s].transactions[i].categorySource
                   = statements[s].transactions[i].categorySource

\* C10: saving a correction of the transaction T of a row relabels no
\* transaction but T; Apply relabels only the candidates still selected;
\* Skip and closing the dialog change no transaction.
C10_NoUnattendedChange ==
  [][/\ \A row \in 1..Len(allTransactions), newCategory \in PickedCategories :
          SaveCategory(row, newCategory) => OnlyRelabelled({Positions[row]})
     /\ ModalApply =>
          OnlyRelabelled({Positions[similarTxModal[1].selectedIndices[k] + 1] :
                            k \in 1..Len(similarTxModal[1].selectedIndices)})
     /\ (ModalSkip \/ ModalClose) => statements' = statements]_vars

\* a step leaves the transaction at position pos labelled category by the
\* user, and description -> category in the stored correction record
Corrected(pos, description, category) ==
  /\ statements'[pos[1]].transactions[pos[2]].category = category
  /\ statements'[pos[1]].transactions[pos[2]].categorySource = "user"
  /\ idbMappings' # Undefined
  /\ MapHas(idbMappings'[1], description)
  /\ MapGet(idbMappings'[1], description) = category

\* C11: a saved category edit, and every pair of a confirmed bulk apply, sets
\* the referenced transaction's category to the new category and its
\* categorySource to user, and records description -> new category in the
\* persisted correction record.
C11_CorrectionRecorded ==
  [][/\ \A row \in 1..Len(allTransactions), newCategory \in PickedCategories :
          SaveCategory(row, newCategory) =>
            Corrected(Positions[row], allTransactions[row].description, newCategory)
     /\ ModalApply =>
          \A k \in 1..Len(similarTxModal[1].selectedIndices) :
            LET index == similarTxModal[1].selectedIndices[k]
            IN  Corrected(Positions[index + 1], allTransactions[index + 1].description,
                          similarTxModal[1].newCategory)]_vars

(***************************************************************************)
(* Specification of the classifier: initializeEmbeddings runs to its end   *)
(* or fails, IndexedDB works or fails, and the exported functions are      *)
(* called in between                                                       *)
(***************************************************************************)
IdbFaults == {"none", "open", "request"}

\* below this confidence categorizeTransactionSmart falls back to the rules
SmartConfidenceFloor == 25

InitClassifier ==
  /\ now = MkDate(2025, 0, 1) /\ engine = "strict" /\ idbFault \in IdbFaults
  /\ IdleParse /\ IdleRule /\ IdleRegistry
  /\ statements = <<>> /\ selectedFiles = {} /\ error = "" /\ isHydrated = FALSE
  /\ IdleEmbed
  /\ idbMappings \in PersistedMappings
  /\ idbEmbeddings \in PersistedEmbeddings
  /\ idbStatements = <<>>
  /\ similarTxModal = Undefined /\ ret = NoCall
  /\ budget = MaxActions /\ tasks = NoTasks

\* the extractor rejects while the exemplar vectors are computed: the
\* finally block runs and initializeEmbeddings rejects, with extractor set
\* and categoryEmbeddings the table filled so far
ComputeFailed ==
  /\ initStage = "computing"
  /\ initStage' = "inferenceFailed"
  /\ ret' = NoCall
  /\ UNCHANGED <<otherVars, statements, selectedFiles, error, isHydrated, extractor,
                 categoryEmbeddings, userDefinedMappings, userMappingEmbeddings,
                 transactionEmbeddingCache, idbVars, similarTxModal, budget>>

\* whether a call of the extractor may resolve, may reject: it may reject
\* once it has rejected
ExtractorResolves == IF initStage = "inferenceFailed" THEN BOOLEAN ELSE {TRUE}

RulesResult(description, vendor) ==
  [category |-> categorizeTransaction(description, vendor), confidence |-> 0,
   method |-> "rules"]

\* categorizeTransactionSmart; resolves tells whether the extractor call of
\* categorizeWithEmbeddings, if one is made, resolves
categorizeTransactionSmart(description, vendor, st, resolves) ==
  IF isModelReady(st)
    THEN LET r == categorizeWithEmbeddings(description, vendor, st)
         IN  IF r.calls > 0 /\ ~resolves
               THEN [result |-> Undefined, cache |-> st.cache, calls |-> r.calls,
                     raised |-> TRUE]
             ELSE IF r.result[1].confidence < SmartConfidenceFloor
               THEN [result |-> Some(RulesResult(description, vendor)), cache |-> r.cache,
                     calls |-> r.calls, raised |-> FALSE]
             ELSE [result |-> Some([category   |-> r.result[1].category,
                                    confidence |-> r.result[1].confidence,
                                    method     |-> "embedding"]),
                   cache |-> r.cache, calls |-> r.calls, raised |-> FALSE]
  ELSE [result |-> Some(RulesResult(description, vendor)), cache |-> st.cache, calls |-> 0,
        raised |-> FALSE]

CallCategorizeTransactionSmart ==
  /\ UserMayAct
  /\ \E d \in ProbeDescriptions, v \in ProbeVendors, resolves \in ExtractorResolves :
       LET r == categorizeTransactionSmart(d, v, St, resolves)
       IN  /\ transactionEmbeddingCache' = r.cache
           /\ idbEmbeddings' = SaveTxEmbeddings(idbEmbeddings, transactionEmbeddingCache,
                                                r.cache)
           /\ ret' = [NoCall EXCEPT !.op = "categorizeTransactionSmart", !.description = d,
                                    !.vendor = v, !.result = r.result, !.calls = r.calls,
                                    !.raised = r.raised]
           /\ budget' = IF r.cache = transactionEmbeddingCache THEN budget ELSE budget - 1
  /\ UNCHANGED <<otherVars, statements, selectedFiles, error, isHydrated, extractor,
                 categoryEmbeddings, initStage, userDefinedMappings, userMappingEmbeddings,
                 idbMappings, idbStatements, similarTxModal>>

\* learnUserCategory called and awaited; when the extractor rejects the
\* function has stored the mapping and raises
CallLearnUserCategory ==
  /\ UserMayAct
  /\ \E d \in ProbeDescriptions, c \in PickedCategories, resolves \in ExtractorResolves :
       LET learned == learnUserCategory(d, c, St)
       IN  /\ userDefinedMappings' = learned.userDefinedMappings
           /\ IF extractor /\ ~resolves
                THEN UNCHANGED <<userMappingEmbeddings, idbMappings>>
                ELSE /\ userMappingEmbeddings' = learned.userMappingEmbeddings
                     /\ idbMappings' = learned.idbMappings
           /\ ret' = [NoCall EXCEPT !.op = "learnUserCategory", !.description = d,
                                    !.result = Some([category |-> c]),
                                    !.calls = IF extractor THEN 1 ELSE 0,
                                    !.targetCached = d \in DOMAIN transactionEmbeddingCache,
                                    !.raised = extractor /\ ~resolves]
  /\ budget' = budget - 1
  /\ UNCHANGED <<otherVars, statements, selectedFiles, error, isHydrated, extractor,
                 categoryEmbeddings, initStage, transactionEmbeddingCache, idbEmbeddings,
                 idbStatements, similarTxModal>>

\* getTransactionEmbedding called and awaited
CallGetTransactionEmbedding ==
  /\ UserMayAct
  /\ \E d \in ProbeDescriptions, v \in ProbeVendors, resolves \in ExtractorResolves :
       LET r      == getTransactionEmbedding(d, v, St)
           raised == r.calls > 0 /\ ~resolves
       IN  /\ transactionEmbeddingCache' = IF raised THEN transactionEmbeddingCache
                                           ELSE r.cache
           /\ idbEmbeddings' =
                IF raised THEN idbEmbeddings
                ELSE SaveTxEmbeddings(idbEmbeddings, transactionEmbeddingCache, r.cache)
           /\ ret' = [NoCall EXCEPT !.op = "getTransactionEmbedding", !.description = d,
                                    !.vendor = v,
                                    !.result = IF raised THEN Undefined ELSE r.result,
                                    !.calls = r.calls, !.raised = raised]
  /\ budget' = budget - 1
  /\ UNCHANGED <<otherVars, statements, selectedFiles, error, isHydrated, extractor,
                 categoryEmbeddings, initStage, userDefinedMappings, userMappingEmbeddings,
                 idbMappings, idbStatements, similarTxModal>>

\* the maps replaceUserMappings is called with
ReplacementMappings ==
  {<<[key |-> "MYSTERY SHOP", value |-> "Other"]>>,
   <<[key |-> "GRAB* RIDE 12345", value |-> "Other"],
     [key |-> "MYSTERY SHOP", value |-> "Food & Dining"]>>}

\* clearUserMappings: both tables are cleared and the empty map is saved
clearUserMappings(st) ==
  [st EXCEPT !.userDefinedMappings = <<>>, !.userMappingEmbeddings = <<>>,
             !.idbMappings = IF st.idbFault = "none" THEN Some(<<>>) ELSE @]

\* replaceUserMappings: the map is replaced, the vectors are cleared and,
\* with the extractor, computed again for the new map, and the map is saved
replaceUserMappings(newMappings, st) ==
  [st EXCEPT !.userDefinedMappings = newMappings,
             !.userMappingEmbeddings =
                IF st.extractor THEN EmbedMappings(newMappings, 1, <<>>) ELSE <<>>,
             !.idbMappings = IF st.idbFault = "none" THEN Some(newMappings) ELSE @]

\* clearCachedEmbeddings clearing the store and nothing else
clearCachedEmbeddingsStoreOnly(cache, idb, fault) ==
  IF fault = "none" THEN [cache |-> cache, idb |-> EmptyCache, raised |-> FALSE]
  ELSE [cache |-> cache, idb |-> idb, raised |-> fault = "request"]

\* clearCachedEmbeddings: the store is cleared, and on the success of that
\* request the in-memory cache. A failure to open the store is caught; the
\* promise of the request is returned without await, so its rejection
\* rejects the call
clearCachedEmbeddings(cache, idb, fault) ==
  IF fault = "none" THEN [cache |-> EmptyCache, idb |-> EmptyCache, raised |-> FALSE]
  ELSE [cache |-> cache, idb |-> idb, raised |-> fault = "request"]

\* the three operations called and awaited; result tells how many entries
\* the structure held before
CallClearUserMappings ==
  /\ UserMayAct
  /\ LET cleared == clearUserMappings(St)
     IN  /\ userDefinedMappings' = cleared.userDefinedMappings
         /\ userMappingEmbeddings' = cleared.userMappingEmbeddings
         /\ idbMappings' = cleared.idbMappings
  /\ ret' = [NoCall EXCEPT !.op = "clearUserMappings",
                           !.result = Some([size |-> Len(userDefinedMappings)])]
  /\ budget' = budget - 1
  /\ UNCHANGED <<otherVars, statements, selectedFiles, error, isHydrated, extractor,
                 categoryEmbeddings, initStage, transactionEmbeddingCache, idbEmbeddings,
                 idbStatements, similarTxModal>>

CallReplaceUserMappings ==
  /\ UserMayAct
  /\ \E newMappings \in ReplacementMappings :
       LET replaced == replaceUserMappings(newMappings, St)
       IN  /\ userDefinedMappings' = replaced.userDefinedMappings
           /\ userMappingEmbeddings' = replaced.userMappingEmbeddings
           /\ idbMappings' = replaced.idbMappings
  /\ ret' = [NoCall EXCEPT !.op = "replaceUserMappings",
                           !.result = Some([size |-> Len(userDefinedMappings)])]
  /\ budget' = budget - 1
  /\ UNCHANGED <<otherVars, statements, selectedFiles, error, isHydrated, extractor,
                 categoryEmbeddings, initStage, transactionEmbeddingCache, idbEmbeddings,
                 idbStatements, similarTxModal>>

CallClearCachedEmbeddings ==
  /\ UserMayAct
  /\ LET cleared == clearCachedEmbeddings(transactionEmbeddingCache, idbEmbeddings, idbFault)
     IN  /\ transactionEmbeddingCache' = cleared.cache
         /\ idbEmbeddings' = cleared.idb
         /\ ret' = [NoCall EXCEPT
                      !.op = "clearCachedEmbeddings",
                      !.result = Some([size |->
                                         Cardinality(DOMAIN transactionEmbeddingCache)]),
                      !.raised = cleared.raised]
  /\ budget' = budget - 1
  /\ UNCHANGED <<otherVars, statements, selectedFiles, error, isHydrated, extractor,
                 categoryEmbeddings, initStage, userDefinedMappings, userMappingEmbeddings,
                 idbMappings, idbStatements, similarTxModal>>

NextClassifier ==
  \/ InitializeEmbeddings \/ PipelineLoaded \/ PipelineFailed
  \/ LoadUserMappings \/ LoadCachedEmbeddings \/ ComputeCategoryEmbedding \/ ComputeFailed
  \/ CallCategorizeTransactionSmart \/ CallLearnUserCategory \/ CallGetTransactionEmbedding
  \/ CallClearUserMappings \/ CallReplaceUserMappings \/ CallClearCachedEmbeddings

SpecClassifier == InitClassifier /\ [][NextClassifier]_vars

InitFailed == initStage \in {"failed", "inferenceFailed"}

\* C12: once initializeEmbeddings has failed (the backend could not be
\* loaded, or a later step of the initialization rejected), isModelReady()
\* is false, and a call of categorizeTransactionSmart does not raise and
\* returns the rule engine's category with confidence 0 and method 'rules'.
C12_FallbackToRules ==
  InitFailed =>
    /\ ~isModelReady(St)
    /\ ret.op = "categorizeTransactionSmart" =>
         /\ ~ret.raised
         /\ ret.result = Some(RulesResult(ret.description, ret.vendor))

\* initializeEmbeddings has not been rejected by a failure of IndexedDB: it
\* is rejected with the extractor loaded only by the extractor itself
InitSurvivesStorage == initStage = "failed" => ~extractor

\* what initializeEmbeddings loaded when IndexedDB failed, before any call
LoadedStateEmpty ==
  (initStage \in {"computing", "ready"} /\ budget = MaxActions) =>
    /\ userDefinedMappings = <<>> /\ userMappingEmbeddings = <<>>
    /\ transactionEmbeddingCache = EmptyCache

\* the in-memory effects of the last call, with the extractor working
InMemoryEffects ==
  (extractor /\ initStage # "inferenceFailed") =>
    /\ ret.op = "learnUserCategory" =>
         /\ ~ret.raised
         /\ MapHas(userDefinedMappings, ret.description)
         /\ MapGet(userDefinedMappings, ret.description) = ret.result[1].category
         /\ MapHas(userMappingEmbeddings, ret.description)
         /\ MapGet(userMappingEmbeddings, ret.description)
              = [category |-> ret.result[1].category,
                 embedding |-> getEmbedding(ret.description)]
    /\ ret.op = "getTransactionEmbedding" =>
         /\ ~ret.raised
         /\ getTxCacheKey(ret.description, ret.vendor) \in DOMAIN transactionEmbeddingCache
         /\ ret.result = Some(getEmbedding(TxText(ret.description, ret.vendor)))

\* C13: when IndexedDB fails (on open, or on a read or write request), for
\* the vector store and for the correction record, initializeEmbeddings is
\* not rejected by it and the classifier gets ready with nothing loaded, and
\* learnUserCategory and getTransactionEmbedding complete with their
\* in-memory effects without raising.
C13_StorageFailureSwallowed ==
  idbFault # "none" => InitSurvivesStorage /\ LoadedStateEmpty /\ InMemoryEffects

\* C14: two runs of detectStatementType, extractPeriod and parseTransactions
\* on the same page texts produce the same transaction list, and a run of
\* parseStatement now produces the list the ingested statement holds,
\* whether or not the text has a period pattern.
C14_ParsingDeterministic ==
  /\ uobReparsed # <<>> => uobReparsed[1].transactions = uobParsed[1].transactions
  /\ (file # <<>> /\ statements # <<>>) =>
       parseStatement(file[1], now, engine).transactions = statements[1].transactions

(***************************************************************************)
(* The aggregation functions (lib/aggregations) and the figures App.tsx    *)
(* computes from them                                                      *)
(***************************************************************************)
INTERNAL_TRANSFER_CATEGORIES == {"Credit Card Payment", "Investments", "Savings"}

isInternalTransfer(tx) == tx.category \in INTERNAL_TRANSFER_CATEGORIES

RECURSIVE SumSeq(_)
SumSeq(numbers) == IF numbers = <<>> THEN 0 ELSE Head(numbers) + SumSeq(Tail(numbers))

\* the key `${year}-${month}` of a transaction, as <<year, month>>; the key
\* "NaN-NaN" of an invalid date is <<0, 0>>
monthKey(tx) == IF tx.date.valid THEN <<tx.date.y, tx.date.m + 1>> ELSE <<0, 0>>

\* a.localeCompare(b) < 0 on month keys: digits sort before "NaN"
MonthBefore(a, b) ==
  IF a = <<0, 0>> THEN FALSE
  ELSE IF b = <<0, 0>> THEN TRUE
  ELSE a[1] < b[1] \/ (a[1] = b[1] /\ a[2] < b[2])

RECURSIVE SortedMonths(_)
SortedMonths(keys) ==
  IF keys = {} THEN <<>>
  ELSE LET first == CHOOSE k \in keys : \A other \in keys \ {k} : MonthBefore(k, other)
       IN  <<first>> \o SortedMonths(keys \ {first})

\* the summary aggregateByMonth pushes for one month
MonthlySummary(month, transactions) ==
  LET counted == SelectSeq(transactions, LAMBDA tx : ~isInternalTransfer(tx))
      totalInflow ==
        SumSeq([i \in 1..Len(counted) |->
                  IF counted[i].amount > 0 THEN counted[i].amount ELSE 0])
      totalOutflow ==
        SumSeq([i \in 1..Len(counted) |->
                  IF counted[i].amount > 0 THEN 0 ELSE Abs(counted[i].amount)])
      spent == SelectSeq(counted, LAMBDA tx : tx.amount < 0)
  IN  [month |-> month, totalInflow |-> totalInflow, totalOutflow |-> totalOutflow,
       netFlow |-> totalInflow - totalOutflow, transactionCount |-> Len(transactions),
       byCategory |->
         [cat \in {spent[i].category : i \in 1..Len(spent)} |->
            SumSeq([i \in 1..Len(spent) |->
                      IF spent[i].category = cat THEN Abs(spent[i].amount) ELSE 0])]]

aggregateByMonth(stmts) ==
  LET all    == FlatMap(stmts)
      months == SortedMonths({monthKey(all[i]) : i \in 1..Len(all)})
  IN  [k \in 1..Len(months) |->
         MonthlySummary(months[k], SelectSeq(all, LAMBDA tx : monthKey(tx) = months[k]))]

\* the category getCategoryTotals files a transaction under
NormalCategory(tx) ==
  LET cat == Trim(tx.category)
  IN  IF cat = "" \/ cat = "Other Spending" THEN "Other" ELSE cat

RECURSIVE CategoryOrder(_, _)
\* the keys of categoryMap in insertion order
CategoryOrder(transactions, seen) ==
  IF transactions = <<>> THEN seen
  ELSE LET cat == NormalCategory(Head(transactions))
       IN  CategoryOrder(Tail(transactions),
                         IF \E i \in 1..Len(seen) : seen[i] = cat THEN seen
                         ELSE Append(seen, cat))

RECURSIVE InsertByTotal(_, _)
\* sort((a, b) => b.total - a.total), a stable sort
InsertByTotal(sorted, entry) ==
  IF sorted = <<>> THEN <<entry>>
  ELSE IF Head(sorted).total >= entry.total
    THEN <<Head(sorted)>> \o InsertByTotal(Tail(sorted), entry)
  ELSE <<entry>> \o sorted

RECURSIVE SortByTotal(_, _)
SortByTotal(entries, sorted) ==
  IF entries = <<>> THEN sorted
  ELSE SortByTotal(Tail(entries), InsertByTotal(sorted, Head(entries)))

getCategoryTotals(stmts) ==
  LET spent == SelectSeq(FlatMap(stmts),
                         LAMBDA tx : ~(tx.amount >= 0) /\ ~isInternalTransfer(tx))
      cats  == CategoryOrder(spent, <<>>)
  IN  SortByTotal([k \in 1..Len(cats) |->
                     [category |-> cats[k],
                      total |-> SumSeq([i \in 1..Len(spent) |->
                                          IF NormalCategory(spent[i]) = cats[k]
                                            THEN Abs(spent[i].amount) ELSE 0])]],
                  <<>>)

\* getTotalStats; avgMonthlySpend is the quotient of the two numbers given
getTotalStats(stmts) ==
  LET summaries == aggregateByMonth(stmts)
      all       == FlatMap(stmts)
      totalInflow  == SumSeq([k \in 1..Len(summaries) |-> summaries[k].totalInflow])
      totalOutflow == SumSeq([k \in 1..Len(summaries) |-> summaries[k].totalOutflow])
      Moved(category) ==
        SumSeq([i \in 1..Len(all) |->
                  IF all[i].category = category /\ all[i].amount < 0
                    THEN Abs(all[i].amount) ELSE 0])
  IN  [totalInflow |-> totalInflow, totalOutflow |-> totalOutflow,
       netFlow |-> totalInflow - totalOutflow,
       transactionCount |->
         SumSeq([k \in 1..Len(summaries) |-> summaries[k].transactionCount]),
       avgMonthlySpend |->
         IF Len(summaries) > 0 THEN <<totalOutflow, Len(summaries)>> ELSE <<0, 1>>,
       totalInvestments |-> Moved("Investments"), totalSavings |-> Moved("Savings")]

\* the figures App.tsx shows with no period selected
categoryTotals == getCategoryTotals(filteredStatements)
stats == getTotalStats(filteredStatements)

RECURSIVE TargetsFrom(_, _)
\* the targets handleRecategorize collects, from statement s on: the
\* transactions not hidden that are "Other" or were labelled by the user or
\* by an earlier pass
TargetsFrom(stmts, s) ==
  IF s > Len(stmts) THEN <<>>
  ELSE SelectSeq([i \in 1..Len(stmts[s].transactions) |-> [stmtIndex |-> s, txIndex |-> i]],
                 LAMBDA t :
                   LET tx == stmts[s].transactions[t.txIndex]
                   IN  ~tx.hidden /\ (tx.category = "Other"
                                      \/ tx.categorySource \in {"user", "ai"}))
       \o TargetsFrom(stmts, s + 1)

RecategorizeTargets(stmts) == TargetsFrom(stmts, 1)

\* the statements with their hidden transactions left out
WithoutHidden(stmts) ==
  [s \in 1..Len(stmts) |->
     [stmts[s] EXCEPT !.transactions = SelectSeq(@, LAMBDA tx : ~tx.hidden)]]

\* C15: a hidden transaction is never a target of the bulk recategorization
\* pass, and the figures computed for the selected statements (getTotalStats,
\* getCategoryTotals, aggregateByMonth) are those of the selected statements
\* without their hidden transactions.
C15_HiddenContributesNothing ==
  /\ \A k \in 1..Len(RecategorizeTargets(statements)) :
       LET t == RecategorizeTargets(statements)[k]
       IN  ~statements[t.stmtIndex].transactions[t.txIndex].hidden
  /\ stats = getTotalStats(WithoutHidden(filteredStatements))
  /\ categoryTotals = getCategoryTotals(WithoutHidden(filteredStatements))
  /\ aggregateByMonth(filteredStatements) = aggregateByMonth(WithoutHidden(filteredStatements))

\* the taxonomy: the exemplar categories and "Other"
Taxonomy == {CATEGORIES[i] : i \in 1..Len(CATEGORIES)} \cup {"Other"}

\* C16: every transaction of every statement, and of every list a parser
\* returns, has a category of the taxonomy of 19 labels.
C16_CategoryInTaxonomy ==
  /\ Cardinality(Taxonomy) = 19
  /\ \A s \in 1..Len(statements) : \A i \in 1..Len(statements[s].transactions) :
       statements[s].transactions[i].category \in Taxonomy
  /\ uobParsed # <<>> =>
       \A i \in 1..Len(uobParsed[1].transactions) :
         uobParsed[1].transactions[i].category \in Taxonomy

\* C20: after learnUserCategory(description, category) has completed with
\* the model loaded and IndexedDB working, the correction map holds
\* description -> category, the correction vector table holds the
\* description's vector with that category, the vector is in the embedding
\* cache, and the correction map and the vector are in durable storage.
C20_LearnEventComplete ==
  (ret.op = "learnUserCategory" /\ extractor /\ ~ret.raised /\ idbFault = "none") =>
    LET description == ret.description
        category    == ret.result[1].category
    IN  /\ MapHas(userDefinedMappings, description)
        /\ MapGet(userDefinedMappings, description) = category
        /\ MapHas(userMappingEmbeddings, description)
        /\ MapGet(userMappingEmbeddings, description)
             = [category |-> category, embedding |-> getEmbedding(description)]
        /\ idbMappings # Undefined
        /\ MapHas(idbMappings[1], description)
        /\ MapGet(idbMappings[1], description) = category
        /\ description \in DOMAIN transactionEmbeddingCache
        /\ description \in DOMAIN idbEmbeddings

(***************************************************************************)
(* Specification of the asynchronous operations: the model is loaded and   *)
(* two statements are restored; the precompute effect, the save handler    *)
(* with its call of learnUserCategory, and the bulk recategorization pass  *)
(* advance from one await to the next while the user goes on               *)
(***************************************************************************)
MaxOps == 2

RECURSIVE ExemplarTable(_)
\* categoryEmbeddings once the first k categories are embedded
ExemplarTable(k) ==
  IF k = 0 THEN <<>>
  ELSE MapSet(ExemplarTable(k - 1), CATEGORIES[k], getEmbedding(ExemplarText(CATEGORIES[k])))

\* the state initializeEmbeddings and hydrate leave
InitTasks ==
  /\ IdleEnv /\ IdleParse /\ IdleRule /\ IdleRegistry
  /\ idbStatements = <<Parsed("jan.pdf"), Parsed("feb.pdf")>>
  /\ statements = idbStatements /\ selectedFiles = {"jan.pdf", "feb.pdf"}
  /\ error = "" /\ isHydrated = TRUE
  /\ idbMappings \in PersistedMappings
  /\ idbEmbeddings \in PersistedEmbeddings
  /\ extractor = TRUE /\ initStage = "ready"
  /\ categoryEmbeddings = Some(ExemplarTable(Len(CATEGORIES)))
  /\ userDefinedMappings = IF idbMappings = Undefined THEN <<>> ELSE idbMappings[1]
  /\ userMappingEmbeddings = EmbedMappings(userDefinedMappings, 1, <<>>)
  /\ transactionEmbeddingCache = idbEmbeddings
  /\ similarTxModal = Undefined /\ ret = NoCall
  /\ budget = MaxOps /\ tasks = NoTasks

Remove(seq, k) == SubSeq(seq, 1, k - 1) \o SubSeq(seq, k + 1, Len(seq))

(* ---- precomputeTransactionEmbeddings ---- *)
\* the indices from `from` on whose key is not in the cache
Uncached(transactions, from, cache) ==
  {i \in from..Len(transactions) :
     getTxCacheKey(transactions[i].description, transactions[i].vendor) \notin DOMAIN cache}

\* every uncached index at once
AllUncached(transactions, from, cache) == Uncached(transactions, from, cache)

\* the indices the loop awaits next: it runs on to the first transaction
\* whose key is not cached and awaits getTransactionEmbedding for it
NextBatch(transactions, from, cache) ==
  LET uncached == Uncached(transactions, from, cache)
  IN  IF uncached = {} THEN {}
      ELSE {CHOOSE i \in uncached : \A j \in uncached : i <= j}

\* the precompute effect runs for a new statement list: a pass starts on
\* the transactions of that list, and runs to its first await
PrecomputeEffect ==
  /\ initStage = "ready" /\ tasks.effectDeps # statements
  /\ LET all   == FlatMap(statements)
         allTx == [i \in 1..Len(all) |->
                     [description |-> all[i].description, vendor |-> all[i].vendor]]
         batch == NextBatch(allTx, 1, transactionEmbeddingCache)
     IN  tasks' = [tasks EXCEPT
                     !.effectDeps = statements,
                     !.precomputes =
                        IF batch = {} THEN @
                        ELSE Append(@, [transactions |-> allTx, done |-> 0,
                                        pending |-> batch])]
  /\ ret' = NoCall
  /\ UNCHANGED <<envVars, parseVars, ruleVars, registryVars, statements, selectedFiles,
                 error, isHydrated, embedVars, idbVars, similarTxModal, budget>>

\* the extractor call of pass k for index idx resolves: the vector is
\* cached and saved, and the loop runs on to its next await or to its end
PrecomputeResolve(k, idx) ==
  /\ k \in 1..Len(tasks.precomputes)
  /\ idx \in tasks.precomputes[k].pending
  /\ LET task  == tasks.precomputes[k]
         tx    == task.transactions[idx]
         cache == CacheSet(transactionEmbeddingCache,
                           getTxCacheKey(tx.description, tx.vendor),
                           getEmbedding(TxText(tx.description, tx.vendor)))
         rest  == task.pending \ {idx}
         next  == IF rest # {} THEN rest ELSE NextBatch(task.transactions, idx + 1, cache)
     IN  /\ transactionEmbeddingCache' = cache
         /\ idbEmbeddings' = SaveTxEmbeddings(idbEmbeddings, transactionEmbeddingCache, cache)
         /\ tasks' = [tasks EXCEPT
                        !.precomputes =
                           IF next = {} THEN Remove(@, k)
                           ELSE [@ EXCEPT ![k].pending = next, ![k].done = idx]]
  /\ ret' = NoCall
  /\ UNCHANGED <<envVars, parseVars, ruleVars, registryVars, statements, selectedFiles,
                 error, isHydrated, extractor, categoryEmbeddings, initStage,
                 userDefinedMappings, userMappingEmbeddings, idbMappings, idbStatements,
                 similarTxModal, budget>>

PrecomputeStepResolves ==
  \E k \in 1..Len(tasks.precomputes) : \E idx \in tasks.precomputes[k].pending :
    PrecomputeResolve(k, idx)

(* ---- learnUserCategory, from its first await on ---- *)
\* userDefinedMappings written again when the vector arrives
MappingsRewritten(mappings, description, category) ==
  MapSet(mappings, description, category)

\* userDefinedMappings after the await of getEmbedding: the function does
\* not write the map again
MappingsAfterAwait(mappings, description, category) == mappings

\* getEmbedding(description) of call k resolves
LearnEmbedded(k) ==
  /\ k \in 1..Len(tasks.learns)
  /\ tasks.learns[k].pc = "embedding"
  /\ LET call == tasks.learns[k]
     IN  /\ userMappingEmbeddings' =
               MapSet(userMappingEmbeddings, call.description,
                      [category |-> call.category,
                       embedding |-> getEmbedding(call.description)])
         /\ userDefinedMappings' =
               MappingsAfterAwait(userDefinedMappings, call.description, call.category)
  /\ tasks' = [tasks EXCEPT !.learns[k].pc = "saving"]
  /\ ret' = NoCall
  /\ UNCHANGED <<envVars, parseVars, ruleVars, registryVars, statements, selectedFiles,
                 error, isHydrated, extractor, categoryEmbeddings, initStage,
                 transactionEmbeddingCache, idbVars, similarTxModal, budget>>

\* saveUserMappings of call k puts the map as it is now, and the call ends
LearnSaved(k) ==
  /\ k \in 1..Len(tasks.learns)
  /\ tasks.learns[k].pc = "saving"
  /\ idbMappings' = IF idbFault = "none" THEN Some(userDefinedMappings) ELSE idbMappings
  /\ tasks' = [tasks EXCEPT !.learns = Remove(@, k)]
  /\ ret' = NoCall
  /\ UNCHANGED <<envVars, parseVars, ruleVars, registryVars, statements, selectedFiles,
                 error, isHydrated, embedVars, idbEmbeddings, idbStatements,
                 similarTxModal, budget>>

LearnStepEmbedded == \E k \in 1..Len(tasks.learns) : LearnEmbedded(k)
LearnStepSaved == \E k \in 1..Len(tasks.learns) : LearnSaved(k)

(* ---- the save handler of TransactionTable.tsx, from its first await on ---- *)
\* the end of the save handler: the similarity search with the target's
\* vector computed, the dialog when something similar was found, and
\* onCategoryUpdate
SaveCompletes(tx, transactions, index, newCategory) ==
  LET similar == SaveSearch(tx, transactions, St)
  IN  /\ transactionEmbeddingCache' = similar.cache
      /\ idbEmbeddings' = SaveTxEmbeddings(idbEmbeddings, transactionEmbeddingCache,
                                           similar.cache)
      /\ similarTxModal' =
           IF Len(similar.result) > 0
             THEN Some([sourceDescription |-> tx.description,
                        sourceVendor      |-> tx.vendor,
                        newCategory       |-> newCategory,
                        similarIndices    |-> similar.result,
                        selectedIndices   |->
                          [k \in 1..Len(similar.result) |-> similar.result[k].index]])
             ELSE similarTxModal
      /\ statements' = handleCategoryUpdate(statements, index, newCategory)

\* a call of learnUserCategory as the log keeps it: concurrent when a call
\* for the same description with another category is still in flight
Issued(description, category) ==
  [description |-> description, category |-> category,
   concurrent  |-> \E k \in 1..Len(tasks.learns) :
                     /\ tasks.learns[k].description = description
                     /\ tasks.learns[k].category # category]

\* the Save button of the row showing allTransactions[row]: learnUserCategory
\* is called and not awaited (it stores the mapping and awaits the
\* extractor), then the handler awaits getTransactionEmbedding; with the
\* vector cached it runs to its end
SaveClick(row, newCategory) ==
  LET tx           == allTransactions[row]
      transactions == allTransactions
      index        == originalIndex(transactions, tx)
      cached       == getTxCacheKey(tx.description, tx.vendor)
                        \in DOMAIN transactionEmbeddingCache
      learning     == [tasks EXCEPT
                         !.learns   = Append(@, [description |-> tx.description,
                                                 category |-> newCategory,
                                                 pc |-> "embedding"]),
                         !.learnLog = Append(@, Issued(tx.description, newCategory))]
  IN  /\ UserMayAct
      /\ newCategory # tx.category
      /\ IF isModelReady(St)
           THEN /\ userDefinedMappings' =
                     MapSet(userDefinedMappings, tx.description, newCategory)
                /\ IF cached
                     THEN /\ SaveCompletes(tx, transactions, index, newCategory)
                          /\ tasks' = learning
                     ELSE /\ tasks' = [learning EXCEPT
                                         !.saves = Append(@, [tx |-> tx,
                                                              transactions |-> transactions,
                                                              index |-> index,
                                                              newCategory |-> newCategory])]
                          /\ UNCHANGED <<transactionEmbeddingCache, idbEmbeddings,
                                         similarTxModal, statements>>
           ELSE /\ statements' = handleCategoryUpdate(statements, index, newCategory)
                /\ UNCHANGED <<userDefinedMappings, transactionEmbeddingCache,
                               idbEmbeddings, similarTxModal, tasks>>
      /\ budget' = budget - 1
      /\ ret' = NoCall
      /\ UNCHANGED <<envVars, parseVars, ruleVars, registryVars, selectedFiles, error,
                     isHydrated, extractor, categoryEmbeddings, initStage,
                     userMappingEmbeddings, idbMappings, idbStatements>>

HandleSaveClick ==
  \E row \in 1..Len(allTransactions), newCategory \in PickedCategories :
    SaveClick(row, newCategory)

\* getTransactionEmbedding of save handler k resolves
SaveResolve(k) ==
  /\ k \in 1..Len(tasks.saves)
  /\ LET task == tasks.saves[k]
     IN  SaveCompletes(task.tx, task.transactions, task.index, task.newCategory)
  /\ tasks' = [tasks EXCEPT !.saves = Remove(@, k)]
  /\ ret' = NoCall
  /\ UNCHANGED <<envVars, parseVars, ruleVars, registryVars, selectedFiles, error,
                 isHydrated, extractor, categoryEmbeddings, initStage, userDefinedMappings,
                 userMappingEmbeddings, idbMappings, idbStatements, budget>>

SaveStepResolves == \E k \in 1..Len(tasks.saves) : SaveResolve(k)

\* handleReset
HandleReset ==
  /\ UserMayAct
  /\ statements' = <<>> /\ selectedFiles' = {} /\ error' = ""
  /\ idbStatements' = IF idbFault = "none" THEN <<>> ELSE idbStatements
  /\ budget' = budget - 1
  /\ ret' = NoCall
  /\ UNCHANGED <<envVars, parseVars, ruleVars, registryVars, isHydrated, embedVars,
                 idbMappings, idbEmbeddings, similarTxModal, tasks>>

(* ---- handleRecategorize ---- *)
EMBEDDING_CONFIDENCE_THRESHOLD == 80

\* the update of the copy for target t and a classification result
ApplyResult(updated, t, result) ==
  LET tx == updated[t.stmtIndex].transactions[t.txIndex]
  IN  IF /\ result # Undefined
         /\ result[1].confidence >= EMBEDDING_CONFIDENCE_THRESHOLD
         /\ result[1].category # tx.category
        THEN [updated EXCEPT ![t.stmtIndex].transactions[t.txIndex] =
                [tx EXCEPT !.category = result[1].category, !.categorySource = "ai"]]
        ELSE updated

RECURSIVE FastPass(_, _, _, _)
\* the first pass, from target k on: categorizeWithEmbeddingsFast
FastPass(updated, targets, k, st) ==
  IF k > Len(targets) THEN updated
  ELSE LET tx == updated[targets[k].stmtIndex].transactions[targets[k].txIndex]
       IN  FastPass(ApplyResult(updated, targets[k],
                                categorizeWithEmbeddingsFast(tx.description, tx.vendor,
                                                             st).result),
                    targets, k + 1, st)

RECURSIVE SecondPass(_, _, _, _)
\* the second pass, from target k on, as far as it runs without waiting for
\* the extractor: targets the first pass relabelled are skipped, and
\* categorizeWithEmbeddings answers at once for an exact match and for a
\* cached vector
SecondPass(updated, targets, k, st) ==
  IF k > Len(targets) THEN [updated |-> updated, k |-> k, done |-> TRUE]
  ELSE LET tx == updated[targets[k].stmtIndex].transactions[targets[k].txIndex]
           r  == categorizeWithEmbeddings(tx.description, tx.vendor, st)
       IN  IF tx.categorySource = "ai" THEN SecondPass(updated, targets, k + 1, st)
           ELSE IF r.calls = 0
             THEN SecondPass(ApplyResult(updated, targets[k], r.result), targets, k + 1, st)
           ELSE [updated |-> updated, k |-> k, done |-> FALSE]

\* the end of the pass: setStatements(updatedStatements), and the message
\* when nothing was relabelled
RecategorizeCompletes(pass, updated) ==
  /\ statements' = updated
  /\ error' = IF updated = pass.start
                THEN "AI did not find high-confidence category improvements."
                ELSE ""

\* the AI button: the targets are collected, the copy is made, the first
\* pass runs, and the second pass yields to the UI before its first target
HandleRecategorize ==
  /\ UserMayAct /\ initStage = "ready" /\ tasks.recat = Undefined
  /\ isModelReady(St)
  /\ LET targets == RecategorizeTargets(statements)
         updated == FastPass(statements, targets, 1, St)
         pass    == [start |-> statements, updated |-> updated, targets |-> targets,
                     k |-> 1, pc |-> "yield"]
     IN  IF Len(statements) = 0
           THEN /\ error' = "No statements loaded"
                /\ UNCHANGED <<statements, tasks>>
         ELSE IF Len(targets) = 0
           THEN /\ error' = "No transactions need AI categorization. Rule-based categories are kept as-is."
                /\ UNCHANGED <<statements, tasks>>
         ELSE IF \A k \in 1..Len(targets) :
                   updated[targets[k].stmtIndex].transactions[targets[k].txIndex]
                     .categorySource = "ai"
           THEN /\ RecategorizeCompletes(pass, updated)
                /\ UNCHANGED tasks
         ELSE /\ tasks' = [tasks EXCEPT !.recat = Some(pass)]
              /\ UNCHANGED <<statements, error>>
  /\ budget' = budget - 1
  /\ ret' = NoCall
  /\ UNCHANGED <<envVars, parseVars, ruleVars, registryVars, selectedFiles, isHydrated,
                 embedVars, idbVars, similarTxModal>>

\* the pass goes on from target k with the copy updated: to its end, or to
\* the next call of the extractor
RecategorizeContinues(pass, updated, k) ==
  LET run == SecondPass(updated, pass.targets, k, St)
  IN  IF run.done
        THEN /\ RecategorizeCompletes(pass, run.updated)
             /\ tasks' = [tasks EXCEPT !.recat = Undefined]
        ELSE /\ tasks' = [tasks EXCEPT !.recat = Some([pass EXCEPT !.updated = run.updated,
                                                                    !.k = run.k,
                                                                    !.pc = "embedding"])]
             /\ UNCHANGED <<statements, error>>

\* the timer of the yield fires
RecategorizeYielded ==
  /\ tasks.recat # Undefined /\ tasks.recat[1].pc = "yield"
  /\ RecategorizeContinues(tasks.recat[1], tasks.recat[1].updated, tasks.recat[1].k)
  /\ ret' = NoCall
  /\ UNCHANGED <<envVars, parseVars, ruleVars, registryVars, selectedFiles, isHydrated,
                 embedVars, idbVars, similarTxModal, budget>>

\* the extractor call of categorizeWithEmbeddings for target k resolves: the
\* vector is cached, saved and classified, and the pass goes on
RecategorizeResolve ==
  /\ tasks.recat # Undefined /\ tasks.recat[1].pc = "embedding"
  /\ LET pass      == tasks.recat[1]
         t         == pass.targets[pass.k]
         tx        == pass.updated[t.stmtIndex].transactions[t.txIndex]
         embedding == getEmbedding(TxText(tx.description, tx.vendor))
         cache     == CacheSet(transactionEmbeddingCache,
                               getTxCacheKey(tx.description, tx.vendor), embedding)
         result    == Some(categorizeWithEmbeddingSync(embedding, categoryEmbeddings,
                                                       userMappingEmbeddings))
     IN  /\ transactionEmbeddingCache' = cache
         /\ idbEmbeddings' = SaveTxEmbeddings(idbEmbeddings, transactionEmbeddingCache, cache)
         /\ LET run == SecondPass(ApplyResult(pass.updated, t, result), pass.targets,
                                  pass.k + 1,
                                  [St EXCEPT !.cache = cache])
            IN  IF run.done
                  THEN /\ RecategorizeCompletes(pass, run.updated)
                       /\ tasks' = [tasks EXCEPT !.recat = Undefined]
                  ELSE /\ tasks' = [tasks EXCEPT
                                      !.recat = Some([pass EXCEPT !.updated = run.updated,
                                                                  !.k = run.k])]
                       /\ UNCHANGED <<statements, error>>
  /\ ret' = NoCall
  /\ UNCHANGED <<envVars, parseVars, ruleVars, registryVars, selectedFiles, isHydrated,
                 extractor, categoryEmbeddings, initStage, userDefinedMappings,
                 userMappingEmbeddings, idbMappings, idbStatements, similarTxModal, budget>>

NextTasks ==
  \/ PrecomputeEffect \/ PrecomputeStepResolves
  \/ HandleSaveClick \/ SaveStepResolves \/ LearnStepEmbedded \/ LearnStepSaved
  \/ ModalClose
  \/ HandleRecategorize \/ RecategorizeYielded \/ RecategorizeResolve
  \/ HandleReset \/ HandleFilesSelected

SpecTasks == InitTasks /\ [][NextTasks]_vars

(* ---- C17 ---- *)
\* a step that ends a recategorization pass or a precompute pass
PassCompletes ==
  \/ tasks.recat # Undefined /\ tasks'.recat = Undefined
  \/ Len(tasks'.precomputes) < Len(tasks.precomputes)

\* the statement list is no longer the one the pass in flight started from
Superseded ==
  \/ tasks.recat # Undefined /\ statements # tasks.recat[1].start
  \/ \E k \in 1..Len(tasks.precomputes) :
       LET all == FlatMap(statements)
       IN  tasks.precomputes[k].transactions #
             [i \in 1..Len(all) |->
                [description |-> all[i].description, vendor |-> all[i].vendor]]

\* C17: when the statement list was replaced or edited while a bulk
\* recategorization pass or a precompute pass was in flight, the step that
\* completes the pass leaves the statement list as the replacement made it,
\* and writes nothing but the embedding cache and its durable copy.
C17_CompletionKeepsReplacement ==
  [][(PassCompletes /\ Superseded) =>
       /\ statements' = statements
       /\ userDefinedMappings' = userDefinedMappings
       /\ userMappingEmbeddings' = userMappingEmbeddings
       /\ idbMappings' = idbMappings
       /\ idbStatements' = idbStatements]_vars

(* ---- C18 ---- *)
RECURSIVE PendingCount(_, _)
\* the extractor calls the precompute passes from k on are waiting for
PendingCount(precomputes, k) ==
  IF k > Len(precomputes) THEN 0
  ELSE Cardinality(precomputes[k].pending) + PendingCount(precomputes, k + 1)

\* the embedding computations outstanding over all operations
Outstanding ==
  PendingCount(tasks.precomputes, 1)
    + Cardinality({k \in 1..Len(tasks.learns) : tasks.learns[k].pc = "embedding"})
    + Len(tasks.saves)
    + (IF tasks.recat # Undefined /\ tasks.recat[1].pc = "embedding" THEN 1 ELSE 0)

InListOrder(task) ==
  /\ Cardinality(task.pending) = 1
  /\ \A idx \in task.pending :
       /\ idx > task.done
       /\ \A j \in 1..(idx - 1) :
            getTxCacheKey(task.transactions[j].description, task.transactions[j].vendor)
              \in DOMAIN transactionEmbeddingCache

\* the recategorization pass waits for target k only with every target
\* before it settled: relabelled, exactly matched, or its vector cached
TargetsInOrder(pass) ==
  pass.pc = "embedding" =>
    \A j \in 1..(pass.k - 1) :
      LET tx == pass.updated[pass.targets[j].stmtIndex].transactions[pass.targets[j].txIndex]
      IN  \/ tx.categorySource = "ai"
          \/ MapHas(userDefinedMappings, tx.description)
          \/ getTxCacheKey(tx.description, tx.vendor) \in DOMAIN transactionEmbeddingCache

RECURSIVE LastIssued(_, _, _)
\* the category of the last call of learnUserCategory for a description
\* among the first k entries of the log, if there is one
LastIssued(log, k, description) ==
  IF k = 0 THEN Undefined
  ELSE IF log[k].description = description THEN Some(log[k].category)
  ELSE LastIssued(log, k - 1, description)

\* the descriptions for which two corrections with different categories
\* were in flight at the same time
ConcurrentlyCorrected ==
  {tasks.learnLog[k].description :
     k \in {i \in 1..Len(tasks.learnLog) : tasks.learnLog[i].concurrent}}

\* no call of learnUserCategory for the description is still running
Settled(description) ==
  \A k \in 1..Len(tasks.learns) : tasks.learns[k].description # description

\* C19: when two corrections of one description with different categories
\* were issued concurrently and both calls of learnUserCategory have
\* completed, userDefinedMappings holds the category of the later-issued
\* correction, and the exact-match classification of the description
\* returns that category with full confidence and without a computation.
C19_LaterCorrectionWins ==
  \A d \in ConcurrentlyCorrected :
    Settled(d) =>
      LET last == LastIssued(tasks.learnLog, Len(tasks.learnLog), d)[1]
          r    == categorizeWithEmbeddings(d, Undefined, St)
      IN  /\ MapHas(userDefinedMappings, d)
          /\ MapGet(userDefinedMappings, d) = last
          /\ r.calls = 0
          /\ r.result # Undefined
          /\ r.result[1].category = last
          /\ r.result[1].confidence = 100

\* two overlapping corrections of one description have both completed, the
\* earlier-issued call having finished last
C19_Witness ==
  \E d \in ConcurrentlyCorrected :
    /\ Settled(d)
    /\ MapHas(userMappingEmbeddings, d)
    /\ MapGet(userMappingEmbeddings, d).category #
         LastIssued(tasks.learnLog, Len(tasks.learnLog), d)[1]

(* ---- C21 ---- *)
\* the exemplar table holds a vector for every category
ExemplarTableComplete ==
  /\ categoryEmbeddings # Undefined
  /\ \A i \in 1..Len(CATEGORIES) : MapHas(categoryEmbeddings[1], CATEGORIES[i])

\* C21: in every reachable state where isModelReady() returns true the
\* exemplar table holds a vector for every category, while
\* initializeEmbeddings is running and after it failed part-way as well, and
\* no result of the embedding classifier was computed against a partial
\* table.
C21_ReadyMeansInitialized ==
  /\ isModelReady(St) => ExemplarTableComplete
  /\ (ret.op = "categorizeTransactionSmart" /\ ret.result # Undefined
        /\ ret.result[1].method = "embedding") => ExemplarTableComplete

(***************************************************************************)
(* The correction store of embeddings.ts under overlapping calls of        *)
(* learnUserCategory, clearUserMappings and replaceUserMappings            *)
(***************************************************************************)
MaxCalls == 3

\* the module after initializeEmbeddings resolved, or never called
InitMappings ==
  /\ IdleEnv /\ IdleParse /\ IdleRule /\ IdleRegistry
  /\ statements = <<>> /\ selectedFiles = {} /\ error = "" /\ isHydrated = TRUE
  /\ idbStatements = <<>> /\ idbEmbeddings = EmptyCache
  /\ transactionEmbeddingCache = EmptyCache
  /\ idbMappings \in PersistedMappings
  /\ extractor \in BOOLEAN
  /\ initStage = IF extractor THEN "ready" ELSE "idle"
  /\ categoryEmbeddings = IF extractor THEN Some(ExemplarTable(Len(CATEGORIES)))
                          ELSE Undefined
  /\ userDefinedMappings = IF extractor /\ idbMappings # Undefined THEN idbMappings[1]
                           ELSE <<>>
  /\ userMappingEmbeddings = EmbedMappings(userDefinedMappings, 1, <<>>)
  /\ similarTxModal = Undefined /\ ret = NoCall
  /\ budget = MaxCalls /\ tasks = NoTasks

\* what a step of the correction store leaves alone
mappingFrame ==
  <<envVars, parseVars, ruleVars, registryVars, statements, selectedFiles, error,
    isHydrated, extractor, categoryEmbeddings, initStage, transactionEmbeddingCache,
    idbEmbeddings, idbStatements, similarTxModal>>

\* learnUserCategory is called: without the extractor it returns, with it
\* the mapping is stored and the call awaits getEmbedding
LearnCall ==
  /\ budget > 0
  /\ \E d \in ProbeDescriptions, c \in PickedCategories :
       IF extractor
         THEN /\ userDefinedMappings' = MapSet(userDefinedMappings, d, c)
              /\ tasks' = [tasks EXCEPT
                             !.learns   = Append(@, [description |-> d, category |-> c,
                                                     pc |-> "embedding"]),
                             !.learnLog = Append(@, Issued(d, c))]
         ELSE UNCHANGED <<userDefinedMappings, tasks>>
  /\ budget' = budget - 1
  /\ ret' = NoCall
  /\ UNCHANGED <<mappingFrame, userMappingEmbeddings, idbMappings>>

\* clearUserMappings is called: both tables are cleared and the call awaits
\* saveUserMappings. An iteration of replaceUserMappings over the cleared
\* map goes on with the entries set after the clear
ClearCall ==
  /\ budget > 0
  /\ userDefinedMappings' = <<>>
  /\ userMappingEmbeddings' = <<>>
  /\ tasks' = [tasks EXCEPT
                 !.mappingOps =
                    Append([k \in 1..Len(@) |->
                              IF @[k].live THEN [@[k] EXCEPT !.next = 1] ELSE @[k]],
                           [op |-> "clear", pc |-> "saving", cur |-> Undefined, next |-> 1,
                            live |-> FALSE, own |-> <<>>])]
  /\ budget' = budget - 1
  /\ ret' = NoCall
  /\ UNCHANGED <<mappingFrame, idbMappings>>

\* replaceUserMappings is called: userDefinedMappings is a new Map, the
\* vectors are cleared, and with the extractor the loop takes the first
\* entry and awaits getEmbedding. A loop of an earlier call still running
\* keeps iterating the Map object it started on
ReplaceCall ==
  /\ budget > 0
  /\ \E newMappings \in ReplacementMappings :
       /\ userDefinedMappings' = newMappings
       /\ userMappingEmbeddings' = <<>>
       /\ tasks' = [tasks EXCEPT
                      !.mappingOps =
                         Append([k \in 1..Len(@) |->
                                   IF @[k].live
                                     THEN [@[k] EXCEPT !.live = FALSE,
                                                       !.own = userDefinedMappings]
                                     ELSE @[k]],
                                IF extractor /\ Len(newMappings) > 0
                                  THEN [op |-> "replace", pc |-> "embedding",
                                        cur |-> Some(newMappings[1]), next |-> 2,
                                        live |-> TRUE, own |-> <<>>]
                                  ELSE [op |-> "replace", pc |-> "saving",
                                        cur |-> Undefined, next |-> 1,
                                        live |-> FALSE, own |-> <<>>])]
  /\ budget' = budget - 1
  /\ ret' = NoCall
  /\ UNCHANGED <<mappingFrame, idbMappings>>

\* getEmbedding of the loop of replaceUserMappings call k resolves: the
\* vector is stored under the entry taken before the await, and the
\* iterator moves on
ReplaceEmbedded(k) ==
  /\ k \in 1..Len(tasks.mappingOps)
  /\ tasks.mappingOps[k].pc = "embedding"
  /\ LET call == tasks.mappingOps[k]
         map  == IF call.live THEN userDefinedMappings ELSE call.own
     IN  /\ userMappingEmbeddings' =
               MapSet(userMappingEmbeddings, call.cur[1].key,
                      [category |-> call.cur[1].value,
                       embedding |-> getEmbedding(call.cur[1].key)])
         /\ tasks' = [tasks EXCEPT
                        !.mappingOps[k] =
                           IF call.next <= Len(map)
                             THEN [call EXCEPT !.cur = Some(map[call.next]),
                                               !.next = call.next + 1]
                             ELSE [call EXCEPT !.pc = "saving", !.cur = Undefined,
                                               !.live = FALSE, !.own = <<>>]]
  /\ ret' = NoCall
  /\ UNCHANGED <<mappingFrame, userDefinedMappings, idbMappings, budget>>

\* saveUserMappings of clearUserMappings or replaceUserMappings call k puts
\* the map as it is now, and the call ends
MappingsSaved(k) ==
  /\ k \in 1..Len(tasks.mappingOps)
  /\ tasks.mappingOps[k].pc = "saving"
  /\ idbMappings' = IF idbFault = "none" THEN Some(userDefinedMappings) ELSE idbMappings
  /\ tasks' = [tasks EXCEPT !.mappingOps = Remove(@, k)]
  /\ ret' = NoCall
  /\ UNCHANGED <<mappingFrame, userDefinedMappings, userMappingEmbeddings, budget>>

ReplaceStepEmbedded == \E k \in 1..Len(tasks.mappingOps) : ReplaceEmbedded(k)
MappingsStepSaved == \E k \in 1..Len(tasks.mappingOps) : MappingsSaved(k)

NextMappings ==
  \/ LearnCall \/ LearnStepEmbedded \/ LearnStepSaved
  \/ ClearCall \/ ReplaceCall \/ ReplaceStepEmbedded \/ MappingsStepSaved

SpecMappings == InitMappings /\ [][NextMappings]_vars

(* ---- C22 ---- *)
\* no call of learnUserCategory, clearUserMappings or replaceUserMappings
\* is running
MappingsQuiet == tasks.learns = <<>> /\ tasks.mappingOps = <<>>

\* the vector table and the map have the same descriptions with the same
\* categories
TablesAgree ==
  /\ \A i \in 1..Len(userDefinedMappings) :
       /\ MapHas(userMappingEmbeddings, userDefinedMappings[i].key)
       /\ MapGet(userMappingEmbeddings, userDefinedMappings[i].key).category
            = userDefinedMappings[i].value
  /\ \A i \in 1..Len(userMappingEmbeddings) :
       MapHas(userDefinedMappings, userMappingEmbeddings[i].key)

\* C22: once every call of learnUserCategory, clearUserMappings and
\* replaceUserMappings has completed, with the extractor loaded,
\* userMappingEmbeddings and userDefinedMappings hold the same descriptions
\* and agree on the category of each; no vector survives a clear of the map.
C22_TablesAgreeWhenQuiet == (extractor /\ MappingsQuiet) => TablesAgree

(* ---- C23 ---- *)
\* a step replaces the transaction at position pos by tx and changes
\* nothing else of any statement
OnlyChanged(pos, tx) ==
  statements' = [statements EXCEPT ![pos[1]].transactions[pos[2]] = tx]

RECURSIVE Relabelled(_, _, _, _)
\* the statements with the transactions at the positions from k on labelled
\* category by the user
Relabelled(stmts, positions, k, category) ==
  IF k > Len(positions) THEN stmts
  ELSE Relabelled([stmts EXCEPT ![positions[k][1]].transactions[positions[k][2]] =
                     [@ EXCEPT !.category = category, !.categorySource = "user"]],
                  positions, k + 1, category)

\* C23: a saved category edit on a row changes the category and the
\* categorySource of the transaction shown in that row, a hidden toggle
\* flips its hidden flag, a bulk apply relabels the selected transactions,
\* and every other transaction of every statement stays as it was, for any
\* selection of statements and also among transactions that share date,
\* description and amount.
C23_EditChangesExactlyTheRow ==
  [][/\ \A row \in 1..Len(allTransactions), newCategory \in PickedCategories :
          SaveCategory(row, newCategory) =>
            LET pos == Positions[row]
            IN  OnlyChanged(pos, [statements[pos[1]].transactions[pos[2]] EXCEPT
                                    !.category = newCategory, !.categorySource = "user"])
     /\ \A row \in 1..Len(allTransactions) :
          ToggleHidden(row) =>
            LET pos == Positions[row]
            IN  OnlyChanged(pos, [statements[pos[1]].transactions[pos[2]] EXCEPT
                                    !.hidden = ~@])
     /\ ModalApply =>
          statements' =
            Relabelled(statements,
                       [k \in 1..Len(similarTxModal[1].selectedIndices) |->
                          Positions[similarTxModal[1].selectedIndices[k] + 1]],
                       1, similarTxModal[1].newCategory)]_vars

(* ---- C24 ---- *)
\* the statement list the recategorization pass of this step started from
PassStart == IF tasks.recat # Undefined THEN tasks.recat[1].start ELSE statements

\* a step in which a recategorization pass writes the statement list
PassWrites ==
  /\ HandleRecategorize \/ RecategorizeYielded \/ RecategorizeResolve
  /\ statements' # statements

\* C24: a bulk recategorization pass changes neither the category nor the
\* categorySource of a transaction that was labelled by the user
\* (categorySource = user) when the pass started.
C24_UserLabelKept ==
  [][PassWrites =>
       \A s \in 1..Len(PassStart) : \A i \in 1..Len(PassStart[s].transactions) :
         PassStart[s].transactions[i].categorySource = "user" =>
           /\ statements'[s].transactions[i].category
                = PassStart[s].transactions[i].category
           /\ statements'[s].transactions[i].categorySource = "user"]_vars

(***************************************************************************)
(* The similarity search of the save handler on drawn tables and caches    *)
(***************************************************************************)
MaxRows == 5

SearchDescriptions ==
  {"GRAB* RIDE 12345", "GRAB* RIDE 67890", "GRAB* RIDE 24680", "MYSTERY SHOP"}

\* a credit-card statement with one line per description
SearchFile(descriptions) ==
  [FileNamed("jan.pdf") EXCEPT
     !.matches = Stamp([i \in 1..Len(descriptions) |->
                          AppUnit(descriptions[i], 1000 + i)])]

\* the app with one statement loaded, the model ready and some of the
\* vectors cached
InitSearch ==
  /\ IdleEnv /\ IdleParse /\ IdleRule /\ IdleRegistry
  /\ \E descriptions \in [1..MaxRows -> SearchDescriptions] :
       statements = <<parseStatement(SearchFile(descriptions), MkDate(2025, 0, 1),
                                     "strict")>>
  /\ selectedFiles = {"jan.pdf"} /\ error = "" /\ isHydrated = TRUE
  /\ idbStatements = statements
  /\ extractor = TRUE /\ initStage = "ready"
  /\ categoryEmbeddings = Some(ExemplarTable(Len(CATEGORIES)))
  /\ userDefinedMappings = <<>> /\ userMappingEmbeddings = <<>> /\ idbMappings = Undefined
  /\ \E cached \in SUBSET SearchDescriptions :
       transactionEmbeddingCache = [k \in cached |-> getEmbedding(k)]
  /\ idbEmbeddings = transactionEmbeddingCache
  /\ similarTxModal = Undefined /\ ret = NoCall
  /\ budget = MaxActions /\ tasks = NoTasks

NextSearch == HandleSaveCategory \/ ModalClose

SpecSearch == InitSearch /\ [][NextSearch]_vars

(* ---- C25 ---- *)
\* the transactions of the table whose vector is cached
CachedRows ==
  {i \in 1..Len(allTransactions) :
     getTxCacheKey(allTransactions[i].description, allTransactions[i].vendor)
       \in DOMAIN transactionEmbeddingCache}

\* fewer than 50% of the transactions of the table have a cached vector
LowCoverage == 2 * Cardinality(CachedRows) < Len(allTransactions)

\* the rows without a cached vector that are not hidden, differ from the
\* corrected row in description or vendor, and are similar to it
UncachedSimilar(row) ==
  {i \in 1..Len(allTransactions) \ CachedRows :
     /\ ~allTransactions[i].hidden
     /\ ~(/\ allTransactions[i].description = allTransactions[row].description
          /\ allTransactions[i].vendor = allTransactions[row].vendor)
     /\ cosineSimilarity(getEmbedding(TxText(allTransactions[row].description,
                                             allTransactions[row].vendor)),
                         getEmbedding(TxText(allTransactions[i].description,
                                             allTransactions[i].vendor)))
          >= SimilarityThreshold}

\* C25: when fewer than 50% of the transactions have a cached vector at the
\* time a correction is saved with the model ready, the missing vectors are
\* computed before the candidates are presented: for every uncached
\* transaction whose similarity to the corrected one is >= 0.85 the dialog
\* opens and lists a candidate with that transaction's description and
\* vendor.
C25_FallbackWhenLowCoverage ==
  [][\A row \in 1..Len(allTransactions), newCategory \in PickedCategories :
       (SaveCategory(row, newCategory) /\ isModelReady(St) /\ LowCoverage) =>
         \A i \in UncachedSimilar(row) :
           /\ similarTxModal' # Undefined
           /\ \E k \in 1..Len(similarTxModal'[1].similarIndices) :
                LET c == allTransactions[similarTxModal'[1].similarIndices[k].index + 1]
                IN  /\ c.description = allTransactions[i].description
                    /\ c.vendor = allTransactions[i].vendor]_vars

(* ---- C26 ---- *)
\* C26: a call of categorizeWithEmbeddingsFast computes no embedding and
\* leaves the embedding cache, the correction map, the correction vector
\* table and the stored copies as they were, and it returns null whenever
\* the description has no exact correction and the key of description and
\* vendor has no cached vector.
C26_FastPathIsPure ==
  [][ret'.op = "categorizeWithEmbeddingsFast" =>
       /\ ret'.calls = 0
       /\ UNCHANGED <<transactionEmbeddingCache, userDefinedMappings,
                      userMappingEmbeddings, idbMappings, idbEmbeddings, idbStatements>>
       /\ (/\ ~MapHas(userDefinedMappings, ret'.description)
           /\ getTxCacheKey(ret'.description, ret'.vendor)
                \notin DOMAIN transactionEmbeddingCache)
            => ret'.result = Undefined]_vars

\* the fast path was called with the model ready for a description without
\* an exact correction and without a cached vector, and returned null
C26_Witness ==
  /\ ret.op = "categorizeWithEmbeddingsFast"
  /\ isModelReady(St)
  /\ ~MapHas(userDefinedMappings, ret.description)
  /\ getTxCacheKey(ret.description, ret.vendor) \notin DOMAIN transactionEmbeddingCache
  /\ ret.result = Undefined

(* ---- C27 ---- *)
KeysOf(map) == {map[i].key : i \in 1..Len(map)}

\* a step keeps every key of the embedding cache, every description of the
\* correction map
CacheKept == DOMAIN transactionEmbeddingCache \subseteq DOMAIN transactionEmbeddingCache'
MappingsKept == KeysOf(userDefinedMappings) \subseteq KeysOf(userDefinedMappings')

\* C27 as stated: a key of the embedding cache and a description of the
\* correction map are removed by no step but a call of
\* clearCachedEmbeddings, of clearUserMappings, and after such a call the
\* in-memory structure is empty.
C27_RemovedOnlyByFullClear ==
  [][/\ ~CacheKept => ret'.op = "clearCachedEmbeddings"
     /\ ~MappingsKept => ret'.op = "clearUserMappings"
     /\ ret'.op = "clearCachedEmbeddings" => transactionEmbeddingCache' = EmptyCache
     /\ ret'.op = "clearUserMappings" => userDefinedMappings' = <<>>]_vars

\* loadUserMappings resolves
MappingsLoaded == initStage = "loadingMappings" /\ initStage' = "loadingCache"

\* C27 (amended): classify, embed and learn calls keep every key of the
\* embedding cache and every description of the correction map.  A cache
\* key is removed only by clearCachedEmbeddings, which empties the cache
\* when the store could be cleared and leaves it as it is otherwise.  A
\* correction is removed only by clearUserMappings, after which the map is
\* empty, by replaceUserMappings, and by loadUserMappings when
\* initialization replaces the map by the stored one.
C27_EntriesNeverExpire ==
  [][/\ ret'.op \in {"categorizeTransactionSmart", "learnUserCategory",
                     "getTransactionEmbedding"} => CacheKept /\ MappingsKept
     /\ ~CacheKept => ret'.op = "clearCachedEmbeddings" /\ idbFault = "none"
     /\ ~MappingsKept =>
          \/ ret'.op \in {"clearUserMappings", "replaceUserMappings"}
          \/ MappingsLoaded
     /\ (ret'.op = "clearCachedEmbeddings" /\ idbFault = "none")
          => transactionEmbeddingCache' = EmptyCache
     /\ (ret'.op = "clearCachedEmbeddings" /\ idbFault # "none")
          => transactionEmbeddingCache' = transactionEmbeddingCache
     /\ ret'.op = "clearUserMappings" => userDefinedMappings' = <<>>]_vars

\* clearCachedEmbeddings was called on a cache that held vectors and
\* emptied it
C27_Witness ==
  /\ ret.op = "clearCachedEmbeddings"
  /\ ret.result[1].size > 0
  /\ transactionEmbeddingCache = EmptyCache

(* ---- C28 ---- *)
\* the lower-cased description and vendor of the call
RuleDesc == toLowerCase(ruleArg[1].description)
RuleVendor == IF Truthy(ruleArg[1].vendor) THEN toLowerCase(ruleArg[1].vendor[1]) ELSE ""

\* the text matches a keyword of the Investments predicate, of the
\* Transfers predicate, of the Income predicate that precedes both
MatchesInvestments ==
  \/ \E k \in {"tiger brokers", "moomoo", "interactive brokers", "syfe", "stashaway",
               "endowus", "poems", "dbs vickers", "cpf", "srs"} : Includes(RuleDesc, k)
  \/ \E k \in {"tiger", "moomoo", "syfe"} : Includes(RuleVendor, k)
MatchesTransfers ==
  \E k \in {"transfer", "paynow", "pib", "mbk", "giro"} : Includes(RuleDesc, k)
MatchesIncome ==
  \E k \in {"salary", "payroll", "giro - salary", "bonus"} : Includes(RuleDesc, k)

\* C28: categorizeTransaction returns the category of the first predicate
\* of its fixed order that matches the lower-cased description and vendor,
\* and "Other" exactly when none matches; a text that matches an
\* Investments keyword and a Transfers keyword, and no earlier predicate,
\* yields "Investments".
C28_FirstMatchWins ==
  ruleRet # <<>> =>
    /\ \A i \in 1..Len(RULES) :
         (/\ RuleMatches(RULES[i], RuleDesc, RuleVendor)
          /\ \A j \in 1..(i - 1) : ~RuleMatches(RULES[j], RuleDesc, RuleVendor))
           => ruleRet[1] = RULES[i].category
    /\ ruleRet[1] = "Other"
         <=> \A i \in 1..Len(RULES) : ~RuleMatches(RULES[i], RuleDesc, RuleVendor)
    /\ (MatchesInvestments /\ MatchesTransfers /\ ~MatchesIncome)
         => ruleRet[1] = "Investments"

\* a text with an Investments keyword and a Transfers keyword was
\* categorized
C28_Witness ==
  /\ ruleRet # <<>>
  /\ MatchesInvestments /\ MatchesTransfers /\ ~MatchesIncome
  /\ ruleRet[1] = "Investments"

(* ---- C29 ---- *)
\* the date token of line l of doc names a calendar day
NamesCalendarDay(doc, l) ==
  doc.matches[l].day >= 1 /\ doc.matches[l].day <= DaysIn(doc.matches[l].mon, 2025)

\* line l of doc passes every sub-pattern of both extraction loops other
\* than the date
OrdinaryLine(doc, l) ==
  LET d == Trim(doc.matches[l].description)
  IN  /\ ~IsBoilerplate(d)
      /\ ~Includes(d, "Interest")
      /\ ~Includes(d, "PREVIOUS BALANCE") /\ ~Includes(d, "PAYMT THRU")

\* every transaction of the list carries a valid date
DatesValid(L) == \A i \in 1..Len(L.txs) : L.txs[i].date.valid

\* every ordinary line with a calendar day has its transaction in the list
\* wherever it stands
OthersExtracted(L) ==
  \A l \in 1..Len(L.doc.matches) :
    (OrdinaryLine(L.doc, l) /\ NamesCalendarDay(L.doc, l))
      => \E i \in 1..Len(L.txs) : L.txs[i].rawText = l

\* C29: in bank-account and in credit-card extraction a unit whose date
\* token does not parse to a valid date is skipped, the units after it are
\* still extracted, and every emitted transaction carries a valid date.
C29_InvalidUnitsSkipped ==
  \A L \in ParsedLists : DatesValid(L) /\ OthersExtracted(L)

(***************************************************************************)
(* Specification of the embedding cache: getTransactionEmbedding is called *)
(* on descriptions and vendors that contain the key's separator, with the  *)
(* model loaded                                                            *)
(***************************************************************************)
KeyDescriptions == {"MYSTERY SHOP", "MYSTERY", "MYSTERY|SHOP", "GRAB* RIDE 12345"}
KeyVendors == {Undefined, Some(""), Some("SHOP"), Some("John Tan")}

InitKeys ==
  /\ IdleEnv /\ IdleParse /\ IdleRule /\ IdleRegistry
  /\ statements = <<>> /\ selectedFiles = {} /\ error = "" /\ isHydrated = TRUE
  /\ idbStatements = <<>> /\ idbEmbeddings = EmptyCache /\ idbMappings = Undefined
  /\ transactionEmbeddingCache = EmptyCache
  /\ extractor = TRUE /\ initStage = "ready"
  /\ categoryEmbeddings = Some(ExemplarTable(Len(CATEGORIES)))
  /\ userDefinedMappings = <<>> /\ userMappingEmbeddings = <<>>
  /\ similarTxModal = Undefined /\ ret = NoCall
  /\ budget = MaxCalls /\ tasks = NoTasks

\* getTransactionEmbedding called and awaited on a drawn pair
GetEmbeddingOfPair ==
  /\ budget > 0
  /\ \E d \in KeyDescriptions, v \in KeyVendors :
       LET r == getTransactionEmbedding(d, v, St)
       IN  /\ transactionEmbeddingCache' = r.cache
           /\ idbEmbeddings' = SaveTxEmbeddings(idbEmbeddings, transactionEmbeddingCache,
                                                r.cache)
           /\ ret' = [NoCall EXCEPT !.op = "getTransactionEmbedding", !.description = d,
                                    !.vendor = v, !.result = r.result, !.calls = r.calls]
  /\ budget' = budget - 1
  /\ UNCHANGED <<otherVars, statements, selectedFiles, error, isHydrated, extractor,
                 categoryEmbeddings, initStage, userDefinedMappings, userMappingEmbeddings,
                 idbMappings, idbStatements, similarTxModal>>

NextKeys == GetEmbeddingOfPair
SpecKeys == InitKeys /\ [][NextKeys]_vars

(* ---- C30 ---- *)
\* C30: two different (description, vendor) pairs never share a cache key,
\* so the vector a call of getTransactionEmbedding returns for a pair, and
\* the vector the cache holds under the pair's key, is the vector of that
\* pair's own text.
C30_OwnVectorReturned ==
  (ret.op = "getTransactionEmbedding" /\ ret.result # Undefined) =>
    /\ ret.result[1] = getEmbedding(TxText(ret.description, ret.vendor))
    /\ transactionEmbeddingCache[getTxCacheKey(ret.description, ret.vendor)]
         = getEmbedding(TxText(ret.description, ret.vendor))

====
